---- MODULE Spec2Model ----
(***************************************************************************)
(* PromptManager: the CSV codec (toCSV / parseCSV / csvTextToObjects), the *)
(* popup's record store with its asynchronous handlers (load, create /     *)
(* update submit, delete confirm, import) and the background quick         *)
(* capture, all working on the one persisted file prompts.csv.             *)
(*                                                                         *)
(* A JavaScript string is a sequence of one-character strings.             *)
(***************************************************************************)
EXTENDS Integers, Sequences, FiniteSets, TLC

(***************************************************************************)
(* Bounds of the model.                                                    *)
(***************************************************************************)
CodecMaxLen == 3
CodecMaxRecs == 2
MaxIds == 2
MaxClock == 1
MaxPrompts == 2
MaxTasks == 2
MaxCaptures == 1
MaxOps == 4
ViewMaxRecs == 2
TextMaxLen == 2
RowsMaxRows == 2

VARIABLES
    file,            \* the text of prompts.csv in the origin private file system
    popup,           \* "closed" or "open": whether a popup page (popup.js) is alive
    allPrompts,      \* popup.js: the in-memory record list
    promptDialog,    \* promptDialog.open
    form,            \* the fields of promptForm, promptIdInput included
    formError,       \* formError.textContent
    confirmDialog,   \* confirmDialog.open
    confirmPromptId, \* confirmPromptId.value
    alerted,         \* the last alert() shown by the popup
    filtered,        \* popup.js: the records the table shows
    groupFilter,     \* groupFilter.value
    subgroupFilter,  \* subgroupFilter.value
    searchInput,     \* searchInput.value
    groupOptions,    \* the options of groupFilter after "All Groups"
    subgroupOptions, \* the options of subgroupFilter after "All Subgroups"
    tasks,           \* the popup's asynchronous handlers that are suspended at an await
    captures,        \* the background's quick captures that are suspended at an await
    nextId,          \* the number of uuid() calls made so far
    clock,           \* the current time
    ops,             \* the number of user actions so far
    input,           \* codec check: the records handed to toCSV
    encoded,         \* codec check: toCSV(input)
    decoded,         \* codec check: csvTextToObjects(encoded)
    reencoded,       \* codec check: toCSV of the records decoded from encoded
    readable,        \* ensureCSVInitialized check: whether readCSVText() succeeds
    step             \* codec check: "idle", "start", "encoded" or "decoded"

vars == <<file, popup, allPrompts, promptDialog, form, formError, confirmDialog,
          confirmPromptId, alerted, filtered, groupFilter, subgroupFilter, searchInput,
          groupOptions, subgroupOptions, tasks, captures, nextId, clock, ops,
          input, encoded, decoded, reencoded, readable, step>>

viewVars == <<groupFilter, subgroupFilter, searchInput, groupOptions, subgroupOptions>>

storeVars == <<file, popup, allPrompts, promptDialog, form, formError, confirmDialog,
               confirmPromptId, alerted, filtered, groupFilter, subgroupFilter, searchInput,
               groupOptions, subgroupOptions, tasks, captures, nextId, clock, ops>>

codecVars == <<input, encoded, decoded, reencoded, readable, step>>

(***************************************************************************)
(* Strings.                                                                *)
(***************************************************************************)
CR == "\r"
LF == "\n"
QUOTE == "\""
COMMA == ","

\* The characters String.prototype.trim removes that occur in the model.
WhiteSpace == {" ", "\t", CR, LF}

\* JavaScript undefined: what destructuring yields for a missing column.
Undefined == <<"undefined">>

Lower(c) == CASE c = "A" -> "a"
              [] c = "B" -> "b"
              [] c = "C" -> "c"
              [] c = "D" -> "d"
              [] c = "G" -> "g"
              [] c = "I" -> "i"
              [] c = "M" -> "m"
              [] c = "P" -> "p"
              [] c = "S" -> "s"
              [] c = "T" -> "t"
              [] OTHER -> c

toLowerCase(s) == [i \in 1..Len(s) |-> Lower(s[i])]

RECURSIVE TrimStart(_)
TrimStart(s) == IF s # <<>> /\ Head(s) \in WhiteSpace THEN TrimStart(Tail(s)) ELSE s

RECURSIVE TrimEnd(_)
TrimEnd(s) == IF s # <<>> /\ s[Len(s)] \in WhiteSpace
                THEN TrimEnd(SubSeq(s, 1, Len(s) - 1))
                ELSE s

trim(s) == TrimEnd(TrimStart(s))

sanitize(s) == IF s = Undefined THEN <<>> ELSE trim(s)

RECURSIVE Join(_, _)
Join(parts, sep) == IF parts = <<>> THEN <<>>
                    ELSE IF Len(parts) = 1 THEN parts[1]
                    ELSE parts[1] \o sep \o Join(Tail(parts), sep)

(***************************************************************************)
(* The codec.                                                              *)
(***************************************************************************)
CSV_HEADERS == << <<"I", "D">>,
                  <<"G", "r", "o", "u", "p">>,
                  <<"S", "u", "b", "g", "r", "o", "u", "p">>,
                  <<"T", "i", "t", "l", "e">>,
                  <<"P", "r", "o", "m", "p", "t", " ", "C", "o", "n", "t", "e", "n", "t">>,
                  <<"D", "a", "t", "e", " ", "C", "r", "e", "a", "t", "e", "d">>,
                  <<"D", "a", "t", "e", " ", "M", "o", "d", "i", "f", "i", "e", "d">> >>

HeaderLine == Join(CSV_HEADERS, <<COMMA>>)

RECURSIVE DoubleQuotes(_)
DoubleQuotes(s) == IF s = <<>> THEN <<>>
                   ELSE (IF Head(s) = QUOTE THEN <<QUOTE, QUOTE>> ELSE <<Head(s)>>)
                        \o DoubleQuotes(Tail(s))

NeedsQuoting(s) == \E i \in 1..Len(s) : s[i] \in {QUOTE, COMMA, LF, CR}

escapeNoDoubling(s) == IF NeedsQuoting(s) THEN <<QUOTE>> \o s \o <<QUOTE>> ELSE s

escape(s) == IF NeedsQuoting(s) THEN <<QUOTE>> \o DoubleQuotes(s) \o <<QUOTE>> ELSE s

\* A record line whose fields are written as they are.
RecordLineUnescaped(r) ==
    Join(<<r.id, r.group, r.subgroup, r.title, r.content, r.createdAt, r.updatedAt>>, <<COMMA>>)

RecordLine(r) == Join(<< escape(r.id), escape(r.group), escape(r.subgroup), escape(r.title),
                         escape(r.content), escape(r.createdAt), escape(r.updatedAt) >>,
                      <<COMMA>>)

toCSV(rows) == Join(<<HeaderLine>> \o [i \in 1..Len(rows) |-> RecordLine(rows[i])],
                    <<CR, LF>>)

\* The locals of parseCSV; i is 1-based.
ParseState(i, field, row, rows, inQuotes) ==
    [i |-> i, field |-> field, row |-> row, rows |-> rows, inQuotes |-> inQuotes]

\* An iteration that ends a row at CR and does not look at the character after it.
ParseStepNoPair(text, s) ==
    IF s.i > Len(text) THEN s
    ELSE LET char == text[s.i]
             next == IF s.i + 1 <= Len(text) THEN text[s.i + 1] ELSE Undefined
         IN  IF s.inQuotes
             THEN IF char = QUOTE
                  THEN IF next = QUOTE
                       THEN ParseState(s.i + 2, Append(s.field, QUOTE), s.row, s.rows, TRUE)
                       ELSE ParseState(s.i + 1, s.field, s.row, s.rows, FALSE)
                  ELSE ParseState(s.i + 1, Append(s.field, char), s.row, s.rows, TRUE)
             ELSE IF char = QUOTE
                  THEN ParseState(s.i + 1, s.field, s.row, s.rows, TRUE)
                  ELSE IF char = COMMA
                  THEN ParseState(s.i + 1, <<>>, Append(s.row, s.field), s.rows, FALSE)
                  ELSE IF char = CR \/ char = LF
                  THEN ParseState(s.i + 1, <<>>, <<>>,
                                  Append(s.rows, Append(s.row, s.field)), FALSE)
                  ELSE ParseState(s.i + 1, Append(s.field, char), s.row, s.rows, FALSE)

\* One iteration of the while loop of parseCSV (none once i is past the end).
ParseStep(text, s) ==
    IF s.i > Len(text) THEN s
    ELSE LET char == text[s.i]
             next == IF s.i + 1 <= Len(text) THEN text[s.i + 1] ELSE Undefined
         IN  IF s.inQuotes
             THEN IF char = QUOTE
                  THEN IF next = QUOTE
                       THEN ParseState(s.i + 2, Append(s.field, QUOTE), s.row, s.rows, TRUE)
                       ELSE ParseState(s.i + 1, s.field, s.row, s.rows, FALSE)
                  ELSE ParseState(s.i + 1, Append(s.field, char), s.row, s.rows, TRUE)
             ELSE IF char = QUOTE
                  THEN ParseState(s.i + 1, s.field, s.row, s.rows, TRUE)
                  ELSE IF char = COMMA
                  THEN ParseState(s.i + 1, <<>>, Append(s.row, s.field), s.rows, FALSE)
                  ELSE IF char = CR
                  THEN ParseState(IF next = LF THEN s.i + 2 ELSE s.i + 1, <<>>, <<>>,
                                  Append(s.rows, Append(s.row, s.field)), FALSE)
                  ELSE IF char = LF
                  THEN ParseState(s.i + 1, <<>>, <<>>,
                                  Append(s.rows, Append(s.row, s.field)), FALSE)
                  ELSE ParseState(s.i + 1, Append(s.field, char), s.row, s.rows, FALSE)

\* while (i < text.length) { ... }: up to n iterations from the locals s, run
\* as two halves so that the evaluation nests only logarithmically deep.
RECURSIVE ParseLoop(_, _, _)
ParseLoop(text, s, n) ==
    IF n <= 1 THEN ParseStep(text, s)
    ELSE LET half == ParseLoop(text, s, n \div 2)
         IN  IF half.i > Len(text) THEN half ELSE ParseLoop(text, half, n - (n \div 2))

\* A parser that gives no rows for a text that ends inside a quoted field.
parseCSVClosedOnly(text) ==
    LET s    == ParseLoop(text, ParseState(1, <<>>, <<>>, <<>>, FALSE), Len(text))
        last == Append(s.row, s.field)
    IN  IF s.inQuotes THEN <<>>
        ELSE IF Len(last) > 1 \/ \E k \in 1..Len(last) : last[k] # <<>>
        THEN Append(s.rows, last)
        ELSE s.rows

parseCSV(text) ==
    LET s    == ParseLoop(text, ParseState(1, <<>>, <<>>, <<>>, FALSE), Len(text))
        last == Append(s.row, s.field)
    IN  IF Len(last) > 1 \/ \E k \in 1..Len(last) : last[k] # <<>>
        THEN Append(s.rows, last)
        ELSE s.rows


(***************************************************************************)
(* uuid() and nowISO(): the n-th generated id and the clock reading t.     *)
(***************************************************************************)
Digits == <<"0", "1", "2", "3", "4", "5", "6", "7", "8", "9">>

uuid(n) == <<"u", Digits[n + 1]>>

nowISO(t) == <<Digits[t + 1]>>

(***************************************************************************)
(* Rows to records.                                                        *)
(***************************************************************************)
Cell(r, k) == IF k <= Len(r) THEN r[k] ELSE Undefined

\* !v?.trim()
Blank(v) == v = Undefined \/ trim(v) = <<>>

OrElse(s, dflt) == IF s # <<>> THEN s ELSE dflt

NeedsUuid(r) == sanitize(Cell(r, 1)) = <<>>

\* The object literal built from a row by csvTextToObjects and by the import loop.
RowObject(r, n, t) ==
    [id        |-> OrElse(sanitize(Cell(r, 1)), uuid(n)),
     group     |-> sanitize(Cell(r, 2)),
     subgroup  |-> sanitize(Cell(r, 3)),
     title     |-> sanitize(Cell(r, 4)),
     content   |-> sanitize(Cell(r, 5)),
     createdAt |-> OrElse(sanitize(Cell(r, 6)), nowISO(t)),
     updatedAt |-> OrElse(sanitize(Cell(r, 7)), nowISO(t))]

\* The loop of csvTextToObjects over rows[i..]; minLen is the column count a
\* row needs to be kept; n counts the uuid() calls made so far.
RECURSIVE ObjectsLoop(_, _, _, _, _, _)
ObjectsLoop(rows, i, minLen, out, n, t) ==
    IF i > Len(rows) THEN [out |-> out, n |-> n]
    ELSE LET r == rows[i]
         IN  IF Len(r) < minLen \/ Blank(Cell(r, 4)) \/ Blank(Cell(r, 5))
             THEN ObjectsLoop(rows, i + 1, minLen, out, n, t)
             ELSE ObjectsLoop(rows, i + 1, minLen, Append(out, RowObject(r, n, t)),
                              IF NeedsUuid(r) THEN n + 1 ELSE n, t)

\* popup.js: a row is kept when it has at least as many columns as the header row.
csvTextToObjects(text, n, t) ==
    LET rows == parseCSV(text)
    IN  IF Len(rows) < 2 THEN [out |-> <<>>, n |-> n]
        ELSE ObjectsLoop(rows, 2, Len(rows[1]), <<>>, n, t)

\* background.js: a row is kept when it has at least 7 columns.
bgCsvTextToObjects(text, n, t) ==
    LET rows == parseCSV(text)
    IN  IF Len(rows) < 2 THEN [out |-> <<>>, n |-> n]
        ELSE ObjectsLoop(rows, 2, 7, <<>>, n, t)

(***************************************************************************)
(* Header check, uniqueness key, validation.                               *)
(***************************************************************************)
HeaderInit == HeaderLine \o <<CR, LF>>

\* A header check that compares the first four columns only.
HeaderOkFirstFour(header) ==
    \A idx \in 1..4 :
        /\ idx <= Len(header)
        /\ toLowerCase(trim(header[idx])) = toLowerCase(CSV_HEADERS[idx])

\* A header check that compares the cells as they are.
HeaderOkExact(header) ==
    \A idx \in 1..Len(CSV_HEADERS) :
        /\ idx <= Len(header)
        /\ header[idx] = CSV_HEADERS[idx]

\* expected.every((h, idx) => norm[idx] === h) over the trimmed, lowercased row
HeaderOk(header) ==
    \A idx \in 1..Len(CSV_HEADERS) :
        /\ idx <= Len(header)
        /\ toLowerCase(trim(header[idx])) = toLowerCase(CSV_HEADERS[idx])

FirstRow(rows) == IF rows = <<>> THEN <<>> ELSE rows[1]

\* The test of ensureCSVInitialized that makes it rewrite the file.
NeedsInit(txt) == trim(txt) = <<>> \/ ~HeaderOk(FirstRow(parseCSV(txt)))

KeyString(group, subgroup, title) ==
    toLowerCase(group) \o <<":", ":">> \o toLowerCase(subgroup) \o <<":", ":">> \o toLowerCase(title)

dedupeKey(p) == KeyString(sanitize(p.group), sanitize(p.subgroup), sanitize(p.title))

TitleRequired == "Title is required."
ContentRequired == "Prompt content is required."
DuplicateTitle == "A prompt with this Title already exists in the same Group/Subgroup."
SaveFailed == "Save failed: write error"

ValidationMessages == {TitleRequired, ContentRequired, DuplicateTitle}

validatePrompt(prompts, id, group, subgroup, title, content) ==
    IF title = <<>> THEN TitleRequired
    ELSE IF content = <<>> THEN ContentRequired
    ELSE IF \E i \in 1..Len(prompts) :
                /\ prompts[i].id # id
                /\ KeyString(prompts[i].group, prompts[i].subgroup, prompts[i].title)
                     = KeyString(group, subgroup, title)
         THEN DuplicateTitle
         ELSE ""

Ungrouped == <<"(", "U", "n", "g", "r", "o", "u", "p", "e", "d", ")">>

resolveGroupAndSubgroup(f) ==
    LET g  == OrElse(sanitize(f.groupNew), sanitize(f.groupSelect))
        sg == OrElse(sanitize(f.subgroupNew), sanitize(f.subgroupSelect))
    IN  [group |-> IF g = Ungrouped THEN <<>> ELSE g, subgroup |-> sg]

\* allPrompts.findIndex((p) => p.id === id), 0 when there is none
FindIndex(prompts, id) ==
    IF \E i \in 1..Len(prompts) : prompts[i].id = id
    THEN CHOOSE i \in 1..Len(prompts) :
            /\ prompts[i].id = id
            /\ \A j \in 1..(i - 1) : prompts[j].id # id
    ELSE 0

RemoveAt(seq, i) == SubSeq(seq, 1, i - 1) \o SubSeq(seq, i + 1, Len(seq))

(***************************************************************************)
(* The import merge loop over rows[i..].                                   *)
(***************************************************************************)
RECURSIVE MergeLoop(_, _, _, _, _, _, _)
MergeLoop(rows, i, prompts, existingKeys, imported, n, t) ==
    IF i > Len(rows) THEN [prompts |-> prompts, imported |-> imported, n |-> n]
    ELSE LET obj == RowObject(rows[i], n, t)
             key == dedupeKey(obj)
             n2  == IF NeedsUuid(rows[i]) THEN n + 1 ELSE n
         IN  IF obj.title = <<>> \/ obj.content = <<>> \/ key \in existingKeys
             THEN MergeLoop(rows, i + 1, prompts, existingKeys, imported, n2, t)
             ELSE MergeLoop(rows, i + 1, Append(prompts, obj), existingKeys \cup {key},
                            imported + 1, n2, t)

\* A merge that starts from an empty set of keys.
importMergeNoExisting(rows, prompts, n, t) == MergeLoop(rows, 2, prompts, {}, 0, n, t)

importMerge(rows, prompts, n, t) ==
    MergeLoop(rows, 2, prompts, {dedupeKey(prompts[i]) : i \in 1..Len(prompts)}, 0, n, t)

\* The title quick capture gives a selection.
\* A title that is the first 80 characters of the content.
CaptureTitleFirst80(content) ==
    IF Len(content) > 80 THEN SubSeq(content, 1, 80) ELSE content

CaptureTitle(content) ==
    IF Len(content) > 80 THEN SubSeq(content, 1, 77) \o <<".", ".", ".">> ELSE content

(***************************************************************************)
(* The inputs the environment chooses from.                                *)
(***************************************************************************)
Fields(gn, gs, sn, ss, t, c) ==
    [groupNew |-> gn, groupSelect |-> gs, subgroupNew |-> sn, subgroupSelect |-> ss,
     title |-> t, content |-> c]

\* What the user may have typed into promptForm when it is submitted.
FormInputs ==
    { Fields(<<>>, <<>>, <<>>, <<>>, <<"t">>, <<"c">>),
      Fields(<<":">>, Ungrouped, <<>>, <<>>, <<" ", "T">>, <<"c", " ">>),
      Fields(<<>>, Ungrouped, <<":">>, <<>>, <<"t">>, <<"x", LF, COMMA, QUOTE, "y">>),
      Fields(<<>>, <<>>, <<>>, <<>>, <<" ">>, <<"c">>),
      Fields(<<>>, <<>>, <<>>, <<>>, <<"t">>, <<>>) }

EmptyForm == [promptId |-> <<>>, groupNew |-> <<>>, groupSelect |-> <<>>, subgroupNew |-> <<>>,
              subgroupSelect |-> <<>>, title |-> <<>>, content |-> <<>>]

WithId(id, f) == [promptId |-> id, groupNew |-> f.groupNew, groupSelect |-> f.groupSelect,
                  subgroupNew |-> f.subgroupNew, subgroupSelect |-> f.subgroupSelect,
                  title |-> f.title, content |-> f.content]

Visible(f) == Fields(f.groupNew, f.groupSelect, f.subgroupNew, f.subgroupSelect, f.title, f.content)

\* A file as some other program wrote it: cells joined by commas, rows by CRLF.
RawText(rows) == Join([i \in 1..Len(rows) |-> Join(rows[i], <<COMMA>>)], <<CR, LF>>)

RenamedHeaders == << <<"I", "D">>, <<"G", "r", "o", "u", "p">>,
                     <<"S", "u", "b", "g", "r", "o", "u", "p">>, <<"T", "i", "t", "l", "e">>,
                     <<"B", "o", "d", "y">>, <<"C", "r", "e", "a", "t", "e", "d">>,
                     <<"M", "o", "d", "i", "f", "i", "e", "d">> >>

\* The files the user may pick for import.
ImportFiles ==
    { RawText(<< CSV_HEADERS,
                 << <<"x">>, <<>>, <<>>, <<"t">>, <<"c">>, <<"0">>, <<"0">> >>,
                 << <<"x">>, <<>>, <<>>, <<" ", "T">>, <<"c">>, <<"0">>, <<"0">> >>,
                 << <<"w">>, <<>>, <<>>, <<" ">>, <<"c">>, <<"0">>, <<"0">> >>,
                 << <<"x">>, Ungrouped, <<>>, <<"b">>, <<"c">>, <<"0">>, <<"0">> >> >>),
      RawText(<< RenamedHeaders,
                 << <<"x">>, <<>>, <<>>, <<"t">>, <<"c">>, <<"0">>, <<"0">> >> >>),
      RawText(<< Append(CSV_HEADERS, <<"E", "x", "t", "r", "a">>),
                 << <<"x">>, <<>>, <<>>, <<"t">>, <<"c">>, <<"0">>, <<"0">>, <<"1">> >> >>),
      RawText(<< CSV_HEADERS >>) }

\* The selections quick capture may be given (info.selectionText).
Selections == { <<>>, <<" ">>, <<" ", "t">> }

(***************************************************************************)
(* Suspended handlers.  kind says which handler it is, pc where it waits,  *)
(* text the text it holds (read from a file or on its way to the file),    *)
(* imported the import handler's counter.                                  *)
(***************************************************************************)
Task(kind, pc, text, imported) == [kind |-> kind, pc |-> pc, text |-> text, imported |-> imported]

\* A writeCSVText call that has started and not yet completed.
Writing(task) == task.pc \in {"saving", "ensureWrite"}

WritesInFlight == Cardinality({i \in 1..Len(tasks) : Writing(tasks[i])})

NoModal == ~promptDialog /\ ~confirmDialog

NoAlert == [msg |-> "", n |-> 0]

\* alert() blocks the popup's script until the user dismisses the message.
Running == popup = "open" /\ alerted = NoAlert

\* A user action, within the budget of the model.
UserAction == ops < MaxOps /\ ops' = ops + 1

(***************************************************************************)
(* render(): the table shows the records sorted by descending updatedAt.   *)
(***************************************************************************)
CharRank(c) == IF \E k \in 1..Len(Digits) : Digits[k] = c
               THEN CHOOSE k \in 1..Len(Digits) : Digits[k] = c
               ELSE 0

\* a.localeCompare(b) < 0 for the timestamps of the model
RECURSIVE StrLess(_, _)
StrLess(a, b) == IF b = <<>> THEN FALSE
                 ELSE IF a = <<>> THEN TRUE
                 ELSE IF CharRank(Head(a)) # CharRank(Head(b))
                      THEN CharRank(Head(a)) < CharRank(Head(b))
                      ELSE StrLess(Tail(a), Tail(b))

\* Array.prototype.sort with (a, b) => b.updatedAt.localeCompare(a.updatedAt): stable
RECURSIVE InsertSorted(_, _)
InsertSorted(sorted, p) ==
    IF sorted = <<>> THEN <<p>>
    ELSE IF StrLess(Head(sorted).updatedAt, p.updatedAt)
         THEN <<p>> \o sorted
         ELSE <<Head(sorted)>> \o InsertSorted(Tail(sorted), p)

RECURSIVE SortByUpdated(_, _)
SortByUpdated(prompts, sorted) ==
    IF prompts = <<>> THEN sorted
    ELSE SortByUpdated(Tail(prompts), InsertSorted(sorted, Head(prompts)))

(***************************************************************************)
(* The filters: buildGroupMaps, getDynamicLists, populateFilters,          *)
(* filterItems.                                                            *)
(***************************************************************************)
\* The characters of the model in the order of their UTF-16 code units.
CodeUnits == << " ", QUOTE, "(", ")", COMMA, "0", "1", "2", "3", "4", "5", "6", "7", "8", "9",
                ":", "A", "B", "C", "D", "E", "G", "I", "M", "P", "S", "T", "U",
                "a", "b", "c", "d", "e", "g", "h", "i", "l", "m", "n", "o", "p", "r", "s",
                "t", "u", "w", "x", "y" >>

CodeUnit(c) == IF \E k \in 1..Len(CodeUnits) : CodeUnits[k] = c
               THEN CHOOSE k \in 1..Len(CodeUnits) : CodeUnits[k] = c
               ELSE 0

\* The order of Array.prototype.sort() without a comparator: by code units.
RECURSIVE Before(_, _)
Before(a, b) == IF b = <<>> THEN FALSE
                ELSE IF a = <<>> THEN TRUE
                ELSE IF Head(a) # Head(b) THEN CodeUnit(Head(a)) < CodeUnit(Head(b))
                ELSE Before(Tail(a), Tail(b))

\* [...set].sort()
RECURSIVE SortStrings(_)
SortStrings(S) ==
    IF S = {} THEN <<>>
    ELSE LET first == CHOOSE x \in S : \A y \in S : y = x \/ Before(x, y)
         IN  <<first>> \o SortStrings(S \ {first})

\* options.includes(v)
Includes(list, v) == \E k \in 1..Len(list) : list[k] = v

\* s.includes(q)
Contains(s, q) == \E k \in 0..(Len(s) - Len(q)) : SubSeq(s, k + 1, k + Len(q)) = q

\* sanitize(p.group) || "(Ungrouped)"
GroupLabel(p) == OrElse(sanitize(p.group), Ungrouped)

\* The Map of buildGroupMaps: from each group label to the set of the
\* non-empty subgroups of its records.
buildGroupMaps(items) ==
    [g \in {GroupLabel(items[i]) : i \in 1..Len(items)} |->
        {sanitize(items[i].subgroup) : i \in {j \in 1..Len(items) : GroupLabel(items[j]) = g}}
            \ {<<>>}]

\* [...map.keys()].sort()
allGroups(map) == SortStrings(DOMAIN map)

\* [...(map.get(gLabel) || new Set())].sort()
subgroupsInGroup(map, gLabel) == SortStrings(IF gLabel \in DOMAIN map THEN map[gLabel] ELSE {})

\* The distinct subgroups of all groups, sorted.
allSubgroups(map) == SortStrings(UNION {map[g] : g \in DOMAIN map})

\* allGroups.filter((g) => map.get(g)?.has(selectedSubgroup))
GroupsWith(map, selectedSubgroup) ==
    SortStrings({g \in DOMAIN map : selectedSubgroup \in map[g]})

\* The four cases of getDynamicLists over the Map of buildGroupMaps.
DynamicLists(map, selectedGroup, selectedSubgroup) ==
    IF selectedGroup # <<>> /\ selectedSubgroup = <<>>
    THEN [groupsList |-> allGroups(map), subgroupsList |-> subgroupsInGroup(map, selectedGroup)]
    ELSE IF selectedGroup = <<>> /\ selectedSubgroup # <<>>
    THEN [groupsList |-> GroupsWith(map, selectedSubgroup), subgroupsList |-> allSubgroups(map)]
    ELSE IF selectedGroup # <<>> /\ selectedSubgroup # <<>>
    THEN [groupsList |-> GroupsWith(map, selectedSubgroup),
          subgroupsList |-> subgroupsInGroup(map, selectedGroup)]
    ELSE [groupsList |-> allGroups(map), subgroupsList |-> allSubgroups(map)]

\* A getDynamicLists whose subgroup list is never narrowed by the group.
getDynamicListsAllSubgroups(prompts, selectedGroup, selectedSubgroup) ==
    DynamicLists(buildGroupMaps(prompts), <<>>, selectedSubgroup)

\* A getDynamicLists whose group list is never narrowed by the subgroup.
getDynamicListsAllGroups(prompts, selectedGroup, selectedSubgroup) ==
    DynamicLists(buildGroupMaps(prompts), selectedGroup, <<>>)

getDynamicLists(prompts, selectedGroup, selectedSubgroup) ==
    DynamicLists(buildGroupMaps(prompts), selectedGroup, selectedSubgroup)

\* select.value = v: the option with this value becomes the selected one; when
\* no option has it, none is selected and select.value reads "".
SetSelectValue(options, v) == IF Includes(options, v) THEN v ELSE <<>>

\* The values populateFilters(source) leaves the two selects with, and the
\* option lists it has rebuilt them from.
Preserved(source, lists, prevGroup, prevSubgroup) ==
    [groupOptions    |-> lists.groupsList,
     subgroupOptions |-> lists.subgroupsList,
     groupFilter     |-> IF /\ source # "subgroup"
                            /\ prevGroup # <<>>
                            /\ ~Includes(lists.groupsList, prevGroup)
                         THEN <<>>
                         ELSE SetSelectValue(lists.groupsList, prevGroup),
     subgroupFilter  |-> IF /\ source # "group"
                            /\ prevSubgroup # <<>>
                            /\ ~Includes(lists.subgroupsList, prevSubgroup)
                         THEN <<>>
                         ELSE SetSelectValue(lists.subgroupsList, prevSubgroup)]

\* populateFilters(source) with source "group", "subgroup" or "null".
populateFilters(source, prompts, prevGroup, prevSubgroup) ==
    Preserved(source, getDynamicLists(prompts, prevGroup, prevSubgroup), prevGroup, prevSubgroup)

\* The test of the .filter callback of filterItems.
Shown(p, q, g, sg) ==
    /\ g # <<>> => GroupLabel(p) = g
    /\ sg # <<>> => sanitize(p.subgroup) = sg
    /\ q # <<>> => Contains(toLowerCase(p.title), q) \/ Contains(toLowerCase(p.content), q)

\* A filterItems that does not sort.
filterItemsUnsorted(prompts, query, g, sg) ==
    LET keep(p) == Shown(p, toLowerCase(sanitize(query)), g, sg)
    IN  SelectSeq(prompts, keep)

filterItems(prompts, query, g, sg) ==
    LET keep(p) == Shown(p, toLowerCase(sanitize(query)), g, sg)
    IN  SortByUpdated(SelectSeq(prompts, keep), <<>>)

\* filterItems() after populateFilters: the view v with the table's records.
WithTable(v, prompts, query) ==
    [groupOptions |-> v.groupOptions, subgroupOptions |-> v.subgroupOptions,
     groupFilter |-> v.groupFilter, subgroupFilter |-> v.subgroupFilter,
     filtered |-> filterItems(prompts, query, v.groupFilter, v.subgroupFilter)]

\* render(): populateFilters(null), then filterItems() with the values the
\* selects are left with.
render(prompts, query, prevGroup, prevSubgroup) ==
    WithTable(populateFilters("null", prompts, prevGroup, prevSubgroup), prompts, query)

\* The page shows the view v.
Show(v) ==
    /\ groupOptions' = v.groupOptions
    /\ subgroupOptions' = v.subgroupOptions
    /\ groupFilter' = v.groupFilter
    /\ subgroupFilter' = v.subgroupFilter
    /\ filtered' = v.filtered

Init ==
    /\ file = <<>>
    /\ popup = "closed"
    /\ allPrompts = <<>>
    /\ promptDialog = FALSE
    /\ form = EmptyForm
    /\ formError = ""
    /\ confirmDialog = FALSE
    /\ confirmPromptId = <<>>
    /\ alerted = NoAlert
    /\ filtered = <<>>
    /\ groupFilter = <<>> /\ subgroupFilter = <<>> /\ searchInput = <<>>
    /\ groupOptions = <<>> /\ subgroupOptions = <<>>
    /\ tasks = <<>>
    /\ captures = <<>>
    /\ nextId = 0
    /\ clock = 0
    /\ ops = 0
    /\ input = <<>>
    /\ encoded = <<>>
    /\ decoded = <<>>
    /\ reencoded = <<>>
    /\ readable = TRUE
    /\ step = "idle"

(***************************************************************************)
(* The popup page: opened, closed, and its initial load().                 *)
(***************************************************************************)
OpenPopup ==
    /\ UserAction
    /\ popup = "closed"
    /\ popup' = "open"
    /\ tasks' = <<Task("load", "ensure", <<>>, 0)>>
    /\ UNCHANGED <<file, allPrompts, promptDialog, form, formError, confirmDialog,
                   confirmPromptId, alerted, filtered, captures, nextId, clock>>
    /\ UNCHANGED viewVars
    /\ UNCHANGED codecVars

\* Closing the popup discards the page: its state and its suspended handlers.
ClosePopup ==
    /\ UserAction
    /\ popup = "open"
    /\ popup' = "closed"
    /\ allPrompts' = <<>>
    /\ promptDialog' = FALSE
    /\ form' = EmptyForm
    /\ formError' = ""
    /\ confirmDialog' = FALSE
    /\ confirmPromptId' = <<>>
    /\ alerted' = NoAlert
    /\ filtered' = <<>>
    /\ groupFilter' = <<>> /\ subgroupFilter' = <<>> /\ searchInput' = <<>>
    /\ groupOptions' = <<>> /\ subgroupOptions' = <<>>
    /\ tasks' = <<>>
    /\ UNCHANGED <<file, captures, nextId, clock>>
    /\ UNCHANGED codecVars

\* ensureCSVInitialized in load(): the file is read and, when it has to be
\* reinitialized, the write of the header line starts.
LoadEnsure(i) ==
    /\ Running
    /\ tasks[i].kind = "load" /\ tasks[i].pc = "ensure"
    /\ tasks' = [tasks EXCEPT ![i] = IF NeedsInit(file)
                                     THEN Task("load", "ensureWrite", HeaderInit, 0)
                                     ELSE Task("load", "read", <<>>, 0)]
    /\ UNCHANGED <<file, popup, allPrompts, promptDialog, form, formError, confirmDialog,
                   confirmPromptId, alerted, filtered, captures, nextId, clock>>
    /\ UNCHANGED <<ops>>
    /\ UNCHANGED viewVars
    /\ UNCHANGED codecVars

LoadEnsureWritten(i) ==
    /\ tasks[i].kind = "load" /\ tasks[i].pc = "ensureWrite"
    /\ file' = tasks[i].text
    /\ tasks' = [tasks EXCEPT ![i] = Task("load", "read", <<>>, 0)]
    /\ UNCHANGED <<popup, allPrompts, promptDialog, form, formError, confirmDialog,
                   confirmPromptId, alerted, filtered, captures, nextId, clock>>
    /\ UNCHANGED <<ops>>
    /\ UNCHANGED viewVars
    /\ UNCHANGED codecVars

\* readCSVText in load(): the text of the file as it is now.
LoadRead(i) ==
    /\ Running
    /\ tasks[i].kind = "load" /\ tasks[i].pc = "read"
    /\ tasks' = [tasks EXCEPT ![i] = Task("load", "assign", file, 0)]
    /\ UNCHANGED <<file, popup, allPrompts, promptDialog, form, formError, confirmDialog,
                   confirmPromptId, alerted, filtered, captures, nextId, clock>>
    /\ UNCHANGED <<ops>>
    /\ UNCHANGED viewVars
    /\ UNCHANGED codecVars

\* allPrompts = csvTextToObjects(csvText); render();
LoadAssign(i) ==
    /\ Running
    /\ tasks[i].kind = "load" /\ tasks[i].pc = "assign"
    /\ LET r == csvTextToObjects(tasks[i].text, nextId, clock)
       IN  /\ r.n <= MaxIds
           /\ allPrompts' = r.out
           /\ nextId' = r.n
           /\ Show(render(r.out, searchInput, groupFilter, subgroupFilter))
           /\ searchInput' = searchInput
    /\ tasks' = RemoveAt(tasks, i)
    /\ UNCHANGED <<file, popup, promptDialog, form, formError, confirmDialog,
                   confirmPromptId, alerted, captures, clock>>
    /\ UNCHANGED <<ops>>
    /\ UNCHANGED codecVars

(***************************************************************************)
(* Dialogs.                                                                *)
(***************************************************************************)
\* openCreate, also reachable by Ctrl+N while a dialog is shown.
OpenCreate ==
    /\ Running
    /\ UserAction
    /\ form' = EmptyForm
    /\ formError' = ""
    /\ promptDialog' = TRUE
    /\ UNCHANGED <<file, popup, allPrompts, confirmDialog, confirmPromptId, alerted,
                   filtered, tasks, captures, nextId, clock>>
    /\ UNCHANGED viewVars
    /\ UNCHANGED codecVars

\* openEdit(id) from a row of the table; a modal dialog makes the table inert.
OpenEdit(k) ==
    /\ Running
    /\ UserAction
    /\ NoModal
    /\ k \in 1..Len(filtered)
    /\ FindIndex(allPrompts, filtered[k].id) > 0
    /\ LET p == allPrompts[FindIndex(allPrompts, filtered[k].id)]
       IN  form' = [promptId |-> p.id, groupNew |-> <<>>,
                    groupSelect |-> OrElse(p.group, Ungrouped), subgroupNew |-> <<>>,
                    subgroupSelect |-> p.subgroup, title |-> p.title, content |-> p.content]
    /\ formError' = ""
    /\ promptDialog' = TRUE
    /\ UNCHANGED <<file, popup, allPrompts, confirmDialog, confirmPromptId, alerted,
                   filtered, tasks, captures, nextId, clock>>
    /\ UNCHANGED viewVars
    /\ UNCHANGED codecVars

\* openDelete(id) from a row of the table.
OpenDelete(k) ==
    /\ Running
    /\ UserAction
    /\ NoModal
    /\ k \in 1..Len(filtered)
    /\ FindIndex(allPrompts, filtered[k].id) > 0
    /\ confirmPromptId' = filtered[k].id
    /\ confirmDialog' = TRUE
    /\ UNCHANGED <<file, popup, allPrompts, promptDialog, form, formError, alerted,
                   filtered, tasks, captures, nextId, clock>>
    /\ UNCHANGED viewVars
    /\ UNCHANGED codecVars

\* btnDialogCancel.  The fields and the error line of a closed dialog are not kept:
\* openCreate and openEdit reset them before the dialog is shown again.
CancelPrompt ==
    /\ Running
    /\ UserAction
    /\ promptDialog
    /\ promptDialog' = FALSE
    /\ form' = EmptyForm
    /\ formError' = ""
    /\ UNCHANGED <<file, popup, allPrompts, confirmDialog, confirmPromptId,
                   alerted, filtered, tasks, captures, nextId, clock>>
    /\ UNCHANGED viewVars
    /\ UNCHANGED codecVars

\* btnConfirmCancel
CancelConfirm ==
    /\ Running
    /\ UserAction
    /\ confirmDialog
    /\ confirmDialog' = FALSE
    /\ confirmPromptId' = <<>>
    /\ UNCHANGED <<file, popup, allPrompts, promptDialog, form, formError, alerted,
                   filtered, tasks, captures, nextId, clock>>
    /\ UNCHANGED viewVars
    /\ UNCHANGED codecVars

(***************************************************************************)
(* promptForm submit: create or update.                                    *)
(***************************************************************************)
\* A mutation that writes a whole new record in place of the one updated.
MutatedFresh(prompts, id, group, subgroup, title, content, now) ==
    LET existingIndex == FindIndex(prompts, id)
        fresh == [id |-> id, group |-> group, subgroup |-> subgroup, title |-> title,
                  content |-> content, createdAt |-> now, updatedAt |-> now]
    IN  IF existingIndex > 0
        THEN [prompts EXCEPT ![existingIndex] = fresh]
        ELSE Append(prompts, fresh)

\* The list after the handler's mutation: the record with this id replaced
\* in place, or a new record pushed.
Mutated(prompts, id, group, subgroup, title, content, now) ==
    LET existingIndex == FindIndex(prompts, id)
    IN  IF existingIndex > 0
        THEN [prompts EXCEPT ![existingIndex] =
                 [@ EXCEPT !.group = group, !.subgroup = subgroup, !.title = title,
                           !.content = content, !.updatedAt = now]]
        ELSE Append(prompts, [id |-> id, group |-> group, subgroup |-> subgroup,
                              title |-> title, content |-> content,
                              createdAt |-> now, updatedAt |-> now])

SubmitOutcomeNoReturn(prompts, promptId, in, n, t) ==
    LET id == OrElse(sanitize(promptId), uuid(n))
        gs == resolveGroupAndSubgroup(in)
    IN  [err |-> validatePrompt(prompts, id, gs.group, gs.subgroup,
                                sanitize(in.title), sanitize(in.content)),
         prompts |-> Mutated(prompts, id, gs.group, gs.subgroup,
                             sanitize(in.title), sanitize(in.content), nowISO(t))]

\* What the submit handler does to the list up to its save(): err is the
\* validation message ("" when valid), prompts the list it leaves.
SubmitOutcome(prompts, promptId, in, n, t) ==
    LET id      == OrElse(sanitize(promptId), uuid(n))
        gs      == resolveGroupAndSubgroup(in)
        title   == sanitize(in.title)
        content == sanitize(in.content)
        err     == validatePrompt(prompts, id, gs.group, gs.subgroup, title, content)
    IN  [err |-> err,
         prompts |-> IF err # "" THEN prompts
                     ELSE Mutated(prompts, id, gs.group, gs.subgroup, title, content, nowISO(t))]

\* The user fills the form with in (or leaves it as it is) and submits it.
Submit(in) ==
    /\ Running
    /\ UserAction
    /\ promptDialog
    /\ LET usesUuid == sanitize(form.promptId) = <<>>
           o == SubmitOutcome(allPrompts, form.promptId, in, nextId, clock)
       IN  /\ usesUuid => nextId < MaxIds
           /\ nextId' = IF usesUuid THEN nextId + 1 ELSE nextId
           /\ form' = WithId(form.promptId, in)
           /\ formError' = o.err
           /\ allPrompts' = o.prompts
           /\ IF o.err # ""
              THEN tasks' = tasks
              ELSE /\ Len(tasks) < MaxTasks
                   /\ Len(o.prompts) <= MaxPrompts
                   /\ tasks' = Append(tasks, Task("submit", "saving", toCSV(o.prompts), 0))
    /\ UNCHANGED <<file, popup, promptDialog, confirmDialog, confirmPromptId, alerted,
                   filtered, captures, clock>>
    /\ UNCHANGED viewVars
    /\ UNCHANGED codecVars

(***************************************************************************)
(* confirmForm submit: delete.                                             *)
(***************************************************************************)
ConfirmSubmit ==
    /\ Running
    /\ UserAction
    /\ confirmDialog
    /\ LET idx == FindIndex(allPrompts, sanitize(confirmPromptId))
       IN  IF idx > 0
           THEN /\ Len(tasks) < MaxTasks
                /\ allPrompts' = RemoveAt(allPrompts, idx)
                /\ tasks' = Append(tasks, Task("confirm", "saving",
                                               toCSV(RemoveAt(allPrompts, idx)), 0))
                /\ UNCHANGED <<confirmDialog, confirmPromptId>>
           ELSE /\ confirmDialog' = FALSE
                /\ confirmPromptId' = <<>>
                /\ UNCHANGED <<allPrompts, tasks>>
    /\ UNCHANGED <<file, popup, promptDialog, form, formError, alerted, filtered,
                   captures, nextId, clock>>
    /\ UNCHANGED viewVars
    /\ UNCHANGED codecVars

(***************************************************************************)
(* fileImport change: the file is read, then reader.onload merges it.      *)
(***************************************************************************)
ImportEmpty == "Import failed: CSV appears empty or lacks header."
ImportMismatch == "Import failed: CSV header mismatch. Use the exported format."
ImportWriteFailed == "Import failed: write error"
ImportReadFailed == "Failed to read file."

ChooseImport(text) ==
    /\ Running
    /\ UserAction
    /\ NoModal
    /\ Len(tasks) < MaxTasks
    /\ tasks' = Append(tasks, Task("import", "reading", text, 0))
    /\ UNCHANGED <<file, popup, allPrompts, promptDialog, form, formError, confirmDialog,
                   confirmPromptId, alerted, filtered, captures, nextId, clock>>
    /\ UNCHANGED viewVars
    /\ UNCHANGED codecVars

\* What reader.onload does up to its save(): error is the message thrown (""
\* when the merge ran), prompts the list it leaves, imported its counter.
ImportOutcome(text, prompts, n, t) ==
    LET rows == parseCSV(text)
    IN  IF Len(rows) < 2
        THEN [error |-> ImportEmpty, prompts |-> prompts, imported |-> 0, n |-> n]
        ELSE IF ~HeaderOk(rows[1])
        THEN [error |-> ImportMismatch, prompts |-> prompts, imported |-> 0, n |-> n]
        ELSE LET m == importMerge(rows, prompts, n, t)
             IN  [error |-> "", prompts |-> m.prompts, imported |-> m.imported, n |-> m.n]

ImportLoaded(i) ==
    /\ Running
    /\ tasks[i].kind = "import" /\ tasks[i].pc = "reading"
    /\ LET o == ImportOutcome(tasks[i].text, allPrompts, nextId, clock)
       IN  /\ Len(o.prompts) <= MaxPrompts
           /\ o.n <= MaxIds
           /\ allPrompts' = o.prompts
           /\ nextId' = o.n
           /\ IF o.error # ""
              THEN /\ alerted' = [msg |-> o.error, n |-> 0]
                   /\ tasks' = RemoveAt(tasks, i)
              ELSE /\ alerted' = alerted
                   /\ tasks' = [tasks EXCEPT ![i] =
                                   Task("import", "saving", toCSV(o.prompts), o.imported)]
    /\ UNCHANGED <<file, popup, promptDialog, form, formError, confirmDialog,
                   confirmPromptId, filtered, captures, clock>>
    /\ UNCHANGED <<ops>>
    /\ UNCHANGED viewVars
    /\ UNCHANGED codecVars

\* reader.onerror
ImportReadError(i) ==
    /\ Running
    /\ tasks[i].kind = "import" /\ tasks[i].pc = "reading"
    /\ alerted' = [msg |-> ImportReadFailed, n |-> 0]
    /\ tasks' = RemoveAt(tasks, i)
    /\ UNCHANGED <<file, popup, allPrompts, promptDialog, form, formError, confirmDialog,
                   confirmPromptId, filtered, captures, nextId, clock>>
    /\ UNCHANGED <<ops>>
    /\ UNCHANGED viewVars
    /\ UNCHANGED codecVars

(***************************************************************************)
(* save(): the write of a submit, confirm or import handler completes in   *)
(* the file system, fails, or has completed and the handler goes on.       *)
(***************************************************************************)
SaveCommit(i) ==
    /\ tasks[i].kind \in {"submit", "confirm", "import"} /\ tasks[i].pc = "saving"
    /\ file' = tasks[i].text
    /\ tasks' = [tasks EXCEPT ![i].pc = "saved"]
    /\ UNCHANGED <<popup, allPrompts, promptDialog, form, formError, confirmDialog,
                   confirmPromptId, alerted, filtered, captures, nextId, clock>>
    /\ UNCHANGED <<ops>>
    /\ UNCHANGED viewVars
    /\ UNCHANGED codecVars

SaveFail(i) ==
    /\ Running
    /\ tasks[i].kind \in {"submit", "confirm", "import"} /\ tasks[i].pc = "saving"
    /\ tasks' = RemoveAt(tasks, i)
    /\ formError' = IF tasks[i].kind = "submit" THEN SaveFailed ELSE formError
    /\ alerted' = IF tasks[i].kind = "import" THEN [msg |-> ImportWriteFailed, n |-> 0]
                  ELSE alerted
    /\ UNCHANGED <<file, popup, allPrompts, promptDialog, form, confirmDialog,
                   confirmPromptId, filtered, captures, nextId, clock>>
    /\ UNCHANGED <<ops>>
    /\ UNCHANGED viewVars
    /\ UNCHANGED codecVars

SaveDone(i) ==
    /\ Running
    /\ tasks[i].kind \in {"submit", "confirm", "import"} /\ tasks[i].pc = "saved"
    /\ tasks' = RemoveAt(tasks, i)
    /\ Show(render(allPrompts, searchInput, groupFilter, subgroupFilter))
    /\ searchInput' = searchInput
    /\ promptDialog' = IF tasks[i].kind = "submit" THEN FALSE ELSE promptDialog
    /\ form' = IF tasks[i].kind = "submit" THEN EmptyForm ELSE form
    /\ confirmDialog' = IF tasks[i].kind = "confirm" THEN FALSE ELSE confirmDialog
    /\ confirmPromptId' = IF tasks[i].kind = "confirm" THEN <<>> ELSE confirmPromptId
    /\ alerted' = IF tasks[i].kind = "import"
                  THEN [msg |-> "Imported", n |-> tasks[i].imported]
                  ELSE alerted
    /\ UNCHANGED <<file, popup, allPrompts, formError, captures, nextId, clock>>
    /\ UNCHANGED <<ops>>
    /\ UNCHANGED codecVars

(***************************************************************************)
(* background.js: quick capture of a selection.                            *)
(***************************************************************************)
Capture(pc, content, text) == [pc |-> pc, content |-> content, text |-> text]

\* The handler returns at once on an empty or blank selection.
StartCapture(sel) ==
    /\ UserAction
    /\ sel # <<>> /\ trim(sel) # <<>>
    /\ Len(captures) < MaxCaptures
    /\ captures' = Append(captures, Capture("ensure", trim(sel), <<>>))
    /\ UNCHANGED <<file, popup, allPrompts, promptDialog, form, formError, confirmDialog,
                   confirmPromptId, alerted, filtered, tasks, nextId, clock>>
    /\ UNCHANGED viewVars
    /\ UNCHANGED codecVars

CaptureEnsure(i) ==
    /\ captures[i].pc = "ensure"
    /\ captures' = [captures EXCEPT ![i] =
                       IF NeedsInit(file)
                       THEN Capture("ensureWrite", captures[i].content, HeaderInit)
                       ELSE Capture("read", captures[i].content, <<>>)]
    /\ UNCHANGED <<file, popup, allPrompts, promptDialog, form, formError, confirmDialog,
                   confirmPromptId, alerted, filtered, tasks, nextId, clock>>
    /\ UNCHANGED <<ops>>
    /\ UNCHANGED viewVars
    /\ UNCHANGED codecVars

CaptureEnsureWritten(i) ==
    /\ captures[i].pc = "ensureWrite"
    /\ file' = captures[i].text
    /\ captures' = [captures EXCEPT ![i] = Capture("read", captures[i].content, <<>>)]
    /\ UNCHANGED <<popup, allPrompts, promptDialog, form, formError, confirmDialog,
                   confirmPromptId, alerted, filtered, tasks, nextId, clock>>
    /\ UNCHANGED <<ops>>
    /\ UNCHANGED viewVars
    /\ UNCHANGED codecVars

\* The records quick capture writes back: those decoded from the file, then the new one.
Captured(all, content, n, t) ==
    Append(all, [id |-> uuid(n), group |-> <<>>, subgroup |-> <<>>,
                 title |-> CaptureTitle(content), content |-> content,
                 createdAt |-> nowISO(t), updatedAt |-> nowISO(t)])

\* The file is read and decoded, the record appended, the write started.
CaptureRead(i) ==
    /\ captures[i].pc = "read"
    /\ LET all == bgCsvTextToObjects(file, nextId, clock)
       IN  /\ Len(all.out) < MaxPrompts
           /\ all.n < MaxIds
           /\ nextId' = all.n + 1
           /\ captures' = [captures EXCEPT ![i] =
                 Capture("saving", captures[i].content,
                         toCSV(Captured(all.out, captures[i].content, all.n, clock)))]
    /\ UNCHANGED <<file, popup, allPrompts, promptDialog, form, formError, confirmDialog,
                   confirmPromptId, alerted, filtered, tasks, clock>>
    /\ UNCHANGED <<ops>>
    /\ UNCHANGED viewVars
    /\ UNCHANGED codecVars

CaptureCommit(i) ==
    /\ captures[i].pc = "saving"
    /\ file' = captures[i].text
    /\ captures' = RemoveAt(captures, i)
    /\ UNCHANGED <<popup, allPrompts, promptDialog, form, formError, confirmDialog,
                   confirmPromptId, alerted, filtered, tasks, nextId, clock>>
    /\ UNCHANGED <<ops>>
    /\ UNCHANGED viewVars
    /\ UNCHANGED codecVars

(***************************************************************************)
(* The filter bar: the two selects and the search box.                     *)
(***************************************************************************)
\* What the user may type into the search box.
Queries == { <<>>, <<" ", "T">>, <<"c">> }

\* The values a select offers: "" and its options.
Offered(options) == {<<>>} \cup {options[k] : k \in 1..Len(options)}

\* groupFilter change: populateFilters("group"); filterItems(); renderTable()
ChangeGroup(g) ==
    /\ Running
    /\ UserAction
    /\ NoModal
    /\ g \in Offered(groupOptions) /\ g # groupFilter
    /\ Show(WithTable(populateFilters("group", allPrompts, g, subgroupFilter), allPrompts, searchInput))
    /\ UNCHANGED <<file, popup, allPrompts, promptDialog, form, formError, confirmDialog,
                   confirmPromptId, alerted, searchInput, tasks, captures, nextId, clock>>
    /\ UNCHANGED codecVars

\* subgroupFilter change, possible while the select is not disabled:
\* populateFilters("subgroup"); filterItems(); renderTable()
ChangeSubgroup(sg) ==
    /\ Running
    /\ UserAction
    /\ NoModal
    /\ subgroupOptions # <<>>
    /\ sg \in Offered(subgroupOptions) /\ sg # subgroupFilter
    /\ Show(WithTable(populateFilters("subgroup", allPrompts, groupFilter, sg), allPrompts, searchInput))
    /\ UNCHANGED <<file, popup, allPrompts, promptDialog, form, formError, confirmDialog,
                   confirmPromptId, alerted, searchInput, tasks, captures, nextId, clock>>
    /\ UNCHANGED codecVars

\* searchInput input: filterItems(); renderTable()
Search(q) ==
    /\ Running
    /\ UserAction
    /\ NoModal
    /\ q # searchInput
    /\ searchInput' = q
    /\ filtered' = filterItems(allPrompts, q, groupFilter, subgroupFilter)
    /\ UNCHANGED <<file, popup, allPrompts, promptDialog, form, formError, confirmDialog,
                   confirmPromptId, alerted, groupFilter, subgroupFilter, groupOptions,
                   subgroupOptions, tasks, captures, nextId, clock>>
    /\ UNCHANGED codecVars

\* The user dismisses the alert.
DismissAlert ==
    /\ popup = "open" /\ alerted # NoAlert
    /\ alerted' = NoAlert
    /\ UNCHANGED <<file, popup, allPrompts, promptDialog, form, formError, confirmDialog,
                   confirmPromptId, filtered, tasks, captures, nextId, clock>>
    /\ UNCHANGED <<ops>>
    /\ UNCHANGED viewVars
    /\ UNCHANGED codecVars

\* Time passes.
Tick ==
    /\ clock < MaxClock
    /\ clock' = clock + 1
    /\ UNCHANGED <<file, popup, allPrompts, promptDialog, form, formError, confirmDialog,
                   confirmPromptId, alerted, filtered, tasks, captures, nextId>>
    /\ UNCHANGED <<ops>>
    /\ UNCHANGED viewVars
    /\ UNCHANGED codecVars

Next ==
    \/ OpenPopup
    \/ ClosePopup
    \/ \E i \in 1..Len(tasks) : LoadEnsure(i)
    \/ \E i \in 1..Len(tasks) : LoadEnsureWritten(i)
    \/ \E i \in 1..Len(tasks) : LoadRead(i)
    \/ \E i \in 1..Len(tasks) : LoadAssign(i)
    \/ OpenCreate
    \/ \E k \in 1..Len(filtered) : OpenEdit(k)
    \/ \E k \in 1..Len(filtered) : OpenDelete(k)
    \/ CancelPrompt
    \/ CancelConfirm
    \/ \E in \in FormInputs \cup {Visible(form)} : Submit(in)
    \/ ConfirmSubmit
    \/ \E text \in ImportFiles : ChooseImport(text)
    \/ \E i \in 1..Len(tasks) : ImportLoaded(i)
    \/ \E i \in 1..Len(tasks) : ImportReadError(i)
    \/ \E i \in 1..Len(tasks) : SaveCommit(i)
    \/ \E i \in 1..Len(tasks) : SaveFail(i)
    \/ \E i \in 1..Len(tasks) : SaveDone(i)
    \/ DismissAlert
    \/ \E g \in Offered(groupOptions) : ChangeGroup(g)
    \/ \E sg \in Offered(subgroupOptions) : ChangeSubgroup(sg)
    \/ \E q \in Queries : Search(q)
    \/ \E sel \in Selections : StartCapture(sel)
    \/ \E i \in 1..Len(captures) : CaptureEnsure(i)
    \/ \E i \in 1..Len(captures) : CaptureEnsureWritten(i)
    \/ \E i \in 1..Len(captures) : CaptureRead(i)
    \/ \E i \in 1..Len(captures) : CaptureCommit(i)
    \/ Tick

Spec == Init /\ [][Next]_vars

(***************************************************************************)
(* The codec on its own: records are drawn, encoded, decoded.              *)
(***************************************************************************)
CodecAlphabet == {"a", " ", COMMA, QUOTE, CR, LF}

\* The strings over an alphabet of at most n characters.
RECURSIVE StringsUpTo(_, _)
StringsUpTo(alphabet, n) ==
    IF n = 0 THEN {<<>>}
    ELSE LET shorter == StringsUpTo(alphabet, n - 1)
         IN  shorter \cup {Append(s, c) : s \in shorter, c \in alphabet}

FieldNames == <<"id", "group", "subgroup", "title", "content", "createdAt", "updatedAt">>

BaseRecord(k) == [id |-> <<"i", Digits[k + 1]>>, group |-> <<"g">>, subgroup |-> <<>>,
                  title |-> <<"t", Digits[k + 1]>>, content |-> <<"c">>,
                  createdAt |-> <<"1">>, updatedAt |-> <<"2">>]

\* The k-th base record with field f set to s and the field after it to s2.
CodecRecord(k, f, s, s2) ==
    [name \in DOMAIN BaseRecord(k) |->
        IF name = FieldNames[f] THEN s
        ELSE IF name = FieldNames[(f % 7) + 1] THEN s2
        ELSE BaseRecord(k)[name]]

\* Lists of base records with one record of the list replaced.
CodecInputs ==
    {<<>>} \cup
    { [k \in 1..n |-> IF k = pos THEN CodecRecord(k, f, s, s2) ELSE BaseRecord(k)] :
        n \in 1..CodecMaxRecs, pos \in 1..CodecMaxRecs, f \in 1..7,
        s \in StringsUpTo(CodecAlphabet, CodecMaxLen),
        s2 \in StringsUpTo(CodecAlphabet, 1) }

CodecInit ==
    /\ file = <<>>
    /\ popup = "closed"
    /\ allPrompts = <<>>
    /\ promptDialog = FALSE
    /\ form = EmptyForm
    /\ formError = ""
    /\ confirmDialog = FALSE
    /\ confirmPromptId = <<>>
    /\ alerted = NoAlert
    /\ filtered = <<>>
    /\ groupFilter = <<>> /\ subgroupFilter = <<>> /\ searchInput = <<>>
    /\ groupOptions = <<>> /\ subgroupOptions = <<>>
    /\ tasks = <<>>
    /\ captures = <<>>
    /\ nextId = 0
    /\ clock = 0
    /\ ops = 0
    /\ input \in CodecInputs
    /\ encoded = <<>>
    /\ decoded = <<>>
    /\ reencoded = <<>>
    /\ readable = TRUE
    /\ step = "start"

CodecEncode ==
    /\ step = "start"
    /\ encoded' = toCSV(input)
    /\ step' = "encoded"
    /\ UNCHANGED <<input, decoded, reencoded, readable>>
    /\ UNCHANGED storeVars

CodecDecode ==
    /\ step = "encoded"
    /\ decoded' = csvTextToObjects(encoded, nextId, clock).out
    /\ step' = "decoded"
    /\ UNCHANGED <<input, encoded, reencoded, readable>>
    /\ UNCHANGED storeVars

SpecCodec == CodecInit /\ [][CodecEncode \/ CodecDecode]_vars

\* A string trim leaves as it is.
Trimmed(s) == s = <<>> \/ (Head(s) \notin WhiteSpace /\ s[Len(s)] \notin WhiteSpace)

\* A record as the store holds it: no field has leading or trailing white
\* space, and only group and subgroup may be empty.
Storable(r) ==
    /\ \A f \in 1..7 : Trimmed(r[FieldNames[f]])
    /\ \A f \in {1, 4, 5, 6, 7} : r[FieldNames[f]] # <<>>

\* The string holds character c.
Holds(s, c) == \E k \in 1..Len(s) : s[k] = c

HasSpecial(r) ==
    /\ \E f \in 1..7 : Holds(r[FieldNames[f]], LF) \/ Holds(r[FieldNames[f]], CR)
    /\ \E f \in 1..7 : Holds(r[FieldNames[f]], QUOTE) \/ Holds(r[FieldNames[f]], COMMA)

\* C1 as claimed: decoding the encoded text gives back any list of records
\* with non-empty title and content, field for field.
C1_RoundTripAny ==
    (step = "decoded" /\ \A k \in 1..Len(input) : input[k].title # <<>> /\ input[k].content # <<>>)
        => decoded = input

\* C1 (amended): decoding the encoded text gives back the list, same length,
\* order and fields, when no field has leading or trailing white space and
\* id, title, content, createdAt and updatedAt are non-empty.
C1_RoundTripStorable ==
    (step = "decoded" /\ \A k \in 1..Len(input) : Storable(input[k])) => decoded = input

\* A list of two storable records, one with a line break inside a field and
\* a comma or quote in another, was decoded to itself.
C1_Witness ==
    /\ step = "decoded"
    /\ Len(input) = 2
    /\ \A k \in 1..Len(input) : Storable(input[k])
    /\ \E k \in 1..Len(input) : HasSpecial(input[k])
    /\ decoded = input

(***************************************************************************)
(* One popup session on its own: the popup stays open, storage never       *)
(* fails and there is no quick capture.                                    *)
(***************************************************************************)
NextSession ==
    \/ OpenPopup
    \/ \E i \in 1..Len(tasks) : LoadEnsure(i)
    \/ \E i \in 1..Len(tasks) : LoadEnsureWritten(i)
    \/ \E i \in 1..Len(tasks) : LoadRead(i)
    \/ \E i \in 1..Len(tasks) : LoadAssign(i)
    \/ OpenCreate
    \/ \E k \in 1..Len(filtered) : OpenEdit(k)
    \/ \E k \in 1..Len(filtered) : OpenDelete(k)
    \/ CancelPrompt
    \/ CancelConfirm
    \/ \E in \in FormInputs \cup {Visible(form)} : Submit(in)
    \/ ConfirmSubmit
    \/ \E text \in ImportFiles : ChooseImport(text)
    \/ \E i \in 1..Len(tasks) : ImportLoaded(i)
    \/ \E i \in 1..Len(tasks) : SaveCommit(i)
    \/ \E i \in 1..Len(tasks) : SaveDone(i)
    \/ DismissAlert
    \/ \E g \in Offered(groupOptions) : ChangeGroup(g)
    \/ \E sg \in Offered(subgroupOptions) : ChangeSubgroup(sg)
    \/ \E q \in Queries : Search(q)
    \/ Tick

SpecSession == Init /\ [][NextSession]_vars

(***************************************************************************)
(* The properties.                                                         *)
(***************************************************************************)
\* The uniqueness key of the data model: the three components, each
\* trimmed and compared without regard to case.
Normalized(s) == toLowerCase(trim(s))

Triple(group, subgroup, title) == <<Normalized(group), Normalized(subgroup), Normalized(title)>>

TripleOf(p) == Triple(p.group, p.subgroup, p.title)

\* C2: no two records of the record list have the same (group, subgroup,
\* title) triple, trimmed and compared case-insensitively.
C2_UniqueKeys ==
    \A i, j \in 1..Len(allPrompts) : i # j => TripleOf(allPrompts[i]) # TripleOf(allPrompts[j])

\* The ids validatePrompt may be asked about: those in the list, and a fresh one.
CandidateIds == {allPrompts[i].id : i \in 1..Len(allPrompts)} \cup {uuid(nextId)}

CandidateLabels == {<<>>, <<":">>, <<"g">>}

CandidateTitles == {<<"t">>, <<"T">>, <<"b">>}

\* C3: a submission with non-empty title and content gets the duplicate
\* message exactly when a record with another id has the same triple
\* compared case-insensitively, and is accepted otherwise.
C3_DuplicateIffSameTriple ==
    \A id \in CandidateIds : \A g \in CandidateLabels : \A sg \in CandidateLabels :
        \A t \in CandidateTitles :
            validatePrompt(allPrompts, id, g, sg, t, <<"c">>) =
                IF \E i \in 1..Len(allPrompts) :
                        /\ allPrompts[i].id # id
                        /\ TripleOf(allPrompts[i]) = Triple(g, sg, t)
                THEN DuplicateTitle
                ELSE ""

\* C4: no two records of the record list have the same id.
C4_UniqueIds ==
    \A i, j \in 1..Len(allPrompts) : i # j => allPrompts[i].id # allPrompts[j].id

\* The writes of save() that have started and not completed.
SavesInFlight == Cardinality({i \in 1..Len(tasks) : tasks[i].pc = "saving"})

\* C5: at most one write of the persisted file by a submit, confirm or
\* import handler is in flight at any time.
C5_OneWriteInFlight == SavesInFlight <= 1

\* C6: whenever no handler of the popup is in flight, the persisted file
\* decodes to exactly the in-memory record list.
C6_FileIsList ==
    (popup = "open" /\ tasks = <<>>) => csvTextToObjects(file, nextId, clock).out = allPrompts

\* The id a submission of the form gets: the hidden one, or a fresh one.
SubmitId == OrElse(sanitize(form.promptId), uuid(nextId))

\* The record a submission of in asks for fails validation: empty title,
\* empty content, or the triple of a record with another id.
Invalid(in) ==
    \/ trim(in.title) = <<>>
    \/ trim(in.content) = <<>>
    \/ \E i \in 1..Len(allPrompts) :
          /\ allPrompts[i].id # SubmitId
          /\ TripleOf(allPrompts[i]) =
               Triple(resolveGroupAndSubgroup(in).group, resolveGroupAndSubgroup(in).subgroup,
                      in.title)

\* C7: a submission that fails validation leaves the record list unchanged,
\* starts no write, leaves the file alone and reports a non-empty reason.
C7_InvalidLeavesStore ==
    [][\A in \in FormInputs \cup {Visible(form)} :
          (Submit(in) /\ Invalid(in)) =>
              /\ allPrompts' = allPrompts
              /\ tasks' = tasks
              /\ file' = file
              /\ formError' \in ValidationMessages]_vars

\* A duplicate was refused while the list holds the record it collides with.
C7_Witness ==
    /\ promptDialog
    /\ formError = DuplicateTitle
    /\ Len(allPrompts) = 1
    /\ TripleOf(allPrompts[1]) =
         Triple(resolveGroupAndSubgroup(form).group, resolveGroupAndSubgroup(form).subgroup,
                form.title)

\* The record the form asks for is in the list.
FormRecordKept ==
    \E i \in 1..Len(allPrompts) :
        /\ allPrompts[i].title = sanitize(form.title)
        /\ allPrompts[i].content = sanitize(form.content)
        /\ allPrompts[i].group = resolveGroupAndSubgroup(form).group
        /\ allPrompts[i].subgroup = resolveGroupAndSubgroup(form).subgroup

\* C8: once the write of a submission has failed, the list still holds the
\* record, the message is none of the validation messages, and submitting
\* the same form again passes validation, so that its write can start.
C8_FailedSaveRetryable ==
    (Running /\ promptDialog /\ formError = SaveFailed /\ tasks = <<>> /\ nextId < MaxIds) =>
        /\ FormRecordKept
        /\ formError \notin ValidationMessages
        /\ SubmitOutcome(allPrompts, form.promptId, Visible(form), nextId, clock).err = ""

\* The first row of a text, as parseCSV gives it.
HeaderRowOf(text) == FirstRow(parseCSV(text))

\* The first row is the seven expected column names, compared
\* case-insensitively and in order.
EqualsExpected(row) ==
    [k \in 1..Len(row) |-> toLowerCase(row[k])] =
        [k \in 1..Len(CSV_HEADERS) |-> toLowerCase(CSV_HEADERS[k])]

\* The first seven cells of the row, trimmed, are the expected names.
FirstSevenMatch(row) ==
    /\ Len(row) >= 7
    /\ \A k \in 1..7 : Normalized(row[k]) = toLowerCase(CSV_HEADERS[k])

\* The import handler i threw: an error is shown, nothing was merged and no write started.
ImportRejected(i) ==
    /\ alerted'.msg \in {ImportEmpty, ImportMismatch}
    /\ allPrompts' = allPrompts
    /\ tasks' = RemoveAt(tasks, i)
    /\ file' = file

\* C9 as claimed: an import whose first row is not the seven expected
\* column names is rejected with an error, adds nothing and writes nothing.
C9_MismatchRejected ==
    [][\A i \in 1..Len(tasks) :
          (ImportLoaded(i) /\ ~EqualsExpected(HeaderRowOf(tasks[i].text))) => ImportRejected(i)]_vars

\* C9 (amended): an import whose first row differs from the expected names
\* in one of its first seven cells, each trimmed and lowercased, is rejected
\* with an error, adds nothing and writes nothing.
C9_FirstSevenMismatchRejected ==
    [][\A i \in 1..Len(tasks) :
          (ImportLoaded(i) /\ ~FirstSevenMatch(HeaderRowOf(tasks[i].text))) => ImportRejected(i)]_vars

\* The import of the file with the renamed columns was refused while the list holds a record.
C9_Witness ==
    /\ alerted.msg = ImportMismatch
    /\ Len(allPrompts) = 1
    /\ tasks = <<>>

\* C10: a merge keeps the records of the list where they were, counts the
\* records it appends, appends only rows with title and content, and no
\* appended record has the triple of a record before it in the list; the
\* count reported at the end is the handler's counter.
C10_MergeAppends ==
    [][\A i \in 1..Len(tasks) :
          /\ (ImportLoaded(i) /\ Len(tasks') = Len(tasks)) =>
                /\ Len(allPrompts') >= Len(allPrompts)
                /\ SubSeq(allPrompts', 1, Len(allPrompts)) = allPrompts
                /\ tasks'[i].imported = Len(allPrompts') - Len(allPrompts)
                /\ \A j \in (Len(allPrompts) + 1)..Len(allPrompts') :
                      /\ allPrompts'[j].title # <<>>
                      /\ allPrompts'[j].content # <<>>
                      /\ \A k \in 1..(j - 1) : TripleOf(allPrompts'[k]) # TripleOf(allPrompts'[j])
          /\ (SaveDone(i) /\ tasks[i].kind = "import") =>
                alerted' = [msg |-> "Imported", n |-> tasks[i].imported]]_vars

\* An import into a list of one record skipped the rows with that record's
\* triple and appended one row.
C10_Witness ==
    /\ alerted = [msg |-> "Imported", n |-> 1]
    /\ Len(allPrompts) = 2
    /\ allPrompts[1].id = uuid(0)
    /\ allPrompts[2].id = <<"x">>

(***************************************************************************)
(* getDynamicLists and filterItems on their own: a record list, the two    *)
(* selections and the query are given, the lists are computed, then the    *)
(* table.                                                                  *)
(***************************************************************************)
ViewGroups == { <<>>, <<"g">>, <<"h">> }

ViewSubgroups == { <<>>, <<"s">>, <<"r">> }

\* The k-th record of a list, in group g and subgroup sg; titles, contents
\* and updatedAt go round three values each.
ViewRecord(k, g, sg) ==
    [id |-> <<"i", Digits[k + 1]>>, group |-> g, subgroup |-> sg,
     title |-> << <<"T", "1">>, <<"b", "2">>, <<"x", "3">> >>[((k - 1) % 3) + 1],
     content |-> << <<"c">>, <<"a", "t">>, <<"c">> >>[((k - 1) % 3) + 1],
     createdAt |-> <<"0">>,
     updatedAt |-> << <<"0">>, <<"1">>, <<"1">> >>[((k - 1) % 3) + 1]]

\* The record lists of up to ViewMaxRecs records.
ViewLists ==
    UNION { { [k \in 1..n |-> ViewRecord(k, gs[k], sgs[k])] :
                gs \in [1..n -> ViewGroups], sgs \in [1..n -> ViewSubgroups] } :
            n \in 0..ViewMaxRecs }

ListsInit ==
    /\ file = <<>>
    /\ popup = "open"
    /\ allPrompts \in ViewLists
    /\ promptDialog = FALSE
    /\ form = EmptyForm
    /\ formError = ""
    /\ confirmDialog = FALSE
    /\ confirmPromptId = <<>>
    /\ alerted = NoAlert
    /\ filtered = <<>>
    /\ groupFilter \in (ViewGroups \cup {Ungrouped})
    /\ subgroupFilter \in ViewSubgroups
    /\ searchInput \in Queries
    /\ groupOptions = <<>> /\ subgroupOptions = <<>>
    /\ tasks = <<>>
    /\ captures = <<>>
    /\ nextId = 0
    /\ clock = 0
    /\ ops = 0
    /\ input = <<>>
    /\ encoded = <<>>
    /\ decoded = <<>>
    /\ reencoded = <<>>
    /\ readable = TRUE
    /\ step = "given"

\* getDynamicLists()
ListsApply ==
    /\ step = "given"
    /\ groupOptions' = getDynamicLists(allPrompts, groupFilter, subgroupFilter).groupsList
    /\ subgroupOptions' = getDynamicLists(allPrompts, groupFilter, subgroupFilter).subgroupsList
    /\ step' = "listed"
    /\ UNCHANGED <<file, popup, allPrompts, promptDialog, form, formError, confirmDialog,
                   confirmPromptId, alerted, filtered, groupFilter, subgroupFilter,
                   searchInput, tasks, captures, nextId, clock, ops, input, encoded, decoded, reencoded, readable>>

\* filterItems()
FilterApply ==
    /\ step = "listed"
    /\ filtered' = filterItems(allPrompts, searchInput, groupFilter, subgroupFilter)
    /\ step' = "filtered"
    /\ UNCHANGED <<file, popup, allPrompts, promptDialog, form, formError, confirmDialog,
                   confirmPromptId, alerted, groupFilter, subgroupFilter, searchInput,
                   groupOptions, subgroupOptions, tasks, captures, nextId, clock, ops,
                   input, encoded, decoded, reencoded, readable>>

SpecLists == ListsInit /\ [][ListsApply \/ FilterApply]_vars

\* The group label of a stored record: its group, or "(Ungrouped)" for none.
LabelOf(p) == IF p.group = <<>> THEN Ungrouped ELSE p.group

\* The labels of the groups that have a record with subgroup sg.
LabelsWith(sg) == {LabelOf(allPrompts[i]) : i \in {j \in 1..Len(allPrompts) : allPrompts[j].subgroup = sg}}

AllLabels == {LabelOf(allPrompts[i]) : i \in 1..Len(allPrompts)}

\* The non-empty subgroups of the records with group label g.
SubgroupsIn(g) ==
    {allPrompts[i].subgroup : i \in {j \in 1..Len(allPrompts) : LabelOf(allPrompts[j]) = g}} \ {<<>>}

AllSubgroupLabels == {allPrompts[i].subgroup : i \in 1..Len(allPrompts)} \ {<<>>}

\* The list holds exactly the members of the set, each once.
ListsExactly(list, S) == {list[k] : k \in 1..Len(list)} = S /\ Len(list) = Cardinality(S)

\* C11: whenever a subgroup is selected, whatever the group selection, the
\* group option list holds only groups that have a record with that subgroup.
C11_GroupsNarrowed ==
    (step # "given" /\ subgroupFilter # <<>>) =>
        \A k \in 1..Len(groupOptions) :
            \E i \in 1..Len(allPrompts) :
                LabelOf(allPrompts[i]) = groupOptions[k] /\ allPrompts[i].subgroup = subgroupFilter

\* Subgroup "s" is selected with group "h"; "g" has it and "h" has not, and
\* the group list is "g" alone.
C11_Witness ==
    /\ step = "listed"
    /\ subgroupFilter = <<"s">> /\ groupFilter = <<"h">>
    /\ AllLabels = {<<"g">>, <<"h">>}
    /\ groupOptions = << <<"g">> >>

\* C12: the group list is all group labels when no subgroup is selected and
\* the groups having the selected subgroup otherwise; the subgroup list is
\* all non-empty subgroups when no group is selected and those of the
\* selected group otherwise.
C12_OptionTable ==
    step # "given" =>
        /\ ListsExactly(groupOptions,
                        IF subgroupFilter = <<>> THEN AllLabels ELSE LabelsWith(subgroupFilter))
        /\ ListsExactly(subgroupOptions,
                        IF groupFilter = <<>> THEN AllSubgroupLabels ELSE SubgroupsIn(groupFilter))

\* Both are selected and each list is narrowed to one of two.
C12_Witness ==
    /\ step = "listed"
    /\ groupFilter = <<"g">> /\ subgroupFilter = <<"s">>
    /\ Cardinality(AllLabels) = 2 /\ Cardinality(AllSubgroupLabels) = 2
    /\ Len(groupOptions) = 1 /\ Len(subgroupOptions) = 1

\* The record passes the selections g and sg and the query.
Passes(p, g, sg, query) ==
    /\ g # <<>> => LabelOf(p) = g
    /\ sg # <<>> => p.subgroup = sg
    /\ Normalized(query) # <<>> =>
          \/ Contains(toLowerCase(p.title), Normalized(query))
          \/ Contains(toLowerCase(p.content), Normalized(query))

\* The table holds exactly the records of the list that pass, latest first.
TableIs(table, prompts, g, sg, query) ==
    /\ {table[k] : k \in 1..Len(table)} =
          {prompts[i] : i \in {j \in 1..Len(prompts) : Passes(prompts[j], g, sg, query)}}
    /\ Len(table) = Cardinality({j \in 1..Len(prompts) : Passes(prompts[j], g, sg, query)})
    /\ \A i, j \in 1..Len(table) : i < j => ~StrLess(table[i].updatedAt, table[j].updatedAt)

\* C14: filterItems leaves in the table exactly the records that match the
\* selected group label, the selected subgroup and the trimmed query
\* (case-insensitively, in title or content), ordered by descending
\* updatedAt, and leaves allPrompts as it is.
C14_VisibleSubset ==
    [][FilterApply =>
          /\ TableIs(filtered', allPrompts, groupFilter, subgroupFilter, searchInput)
          /\ allPrompts' = allPrompts]_vars

\* Two ungrouped records, nothing selected, query "t" in upper case with a
\* blank before it: both are shown, the later one first.
C14_Witness ==
    /\ step = "filtered"
    /\ groupFilter = <<>> /\ subgroupFilter = <<>> /\ searchInput = <<" ", "T">>
    /\ Len(allPrompts) = 2
    /\ \A i \in 1..2 : allPrompts[i].group = <<>> /\ allPrompts[i].subgroup = <<>>
    /\ filtered = <<allPrompts[2], allPrompts[1]>>

(***************************************************************************)
(* A popup that has loaded a list of records: the selectors, the search    *)
(* box, edits and deletions, and saves that complete or fail.              *)
(***************************************************************************)
ViewInit ==
    /\ popup = "open"
    /\ allPrompts \in ViewLists
    /\ file = toCSV(allPrompts)
    /\ promptDialog = FALSE
    /\ form = EmptyForm
    /\ formError = ""
    /\ confirmDialog = FALSE
    /\ confirmPromptId = <<>>
    /\ alerted = NoAlert
    /\ groupFilter = <<>> /\ subgroupFilter = <<>> /\ searchInput = <<>>
    /\ groupOptions = getDynamicLists(allPrompts, <<>>, <<>>).groupsList
    /\ subgroupOptions = getDynamicLists(allPrompts, <<>>, <<>>).subgroupsList
    /\ filtered = filterItems(allPrompts, <<>>, <<>>, <<>>)
    /\ tasks = <<>>
    /\ captures = <<>>
    /\ nextId = 0
    /\ clock = MaxClock
    /\ ops = 0
    /\ input = <<>>
    /\ encoded = <<>>
    /\ decoded = <<>>
    /\ reencoded = <<>>
    /\ readable = TRUE
    /\ step = "idle"

ViewNext ==
    \/ \E k \in 1..Len(filtered) : OpenEdit(k)
    \/ \E k \in 1..Len(filtered) : OpenDelete(k)
    \/ CancelPrompt
    \/ CancelConfirm
    \/ \E in \in FormInputs \cup {Visible(form)} : Submit(in)
    \/ ConfirmSubmit
    \/ \E i \in 1..Len(tasks) : SaveCommit(i)
    \/ \E i \in 1..Len(tasks) : SaveFail(i)
    \/ \E i \in 1..Len(tasks) : SaveDone(i)
    \/ \E g \in Offered(groupOptions) : ChangeGroup(g)
    \/ \E sg \in Offered(subgroupOptions) : ChangeSubgroup(sg)
    \/ \E q \in Queries : Search(q)

SpecView == ViewInit /\ [][ViewNext]_vars

\* The selection, cleared when it is non-empty and not among the options.
ClearedIfAbsent(selection, options) ==
    IF selection # <<>> /\ ~Includes(options, selection) THEN <<>> ELSE selection

\* C13: when the user changes one selector, the selection made is left as
\* it is even if it is absent from the recomputed list, and the selection on
\* the other axis is cleared exactly when it is non-empty and absent from
\* its recomputed list; on a render() after a mutation each non-empty
\* selection absent from its list is cleared.
C13_SelectionPreserved ==
    [][/\ \A g \in Offered(groupOptions) :
             ChangeGroup(g) =>
                /\ groupFilter' = g
                /\ subgroupFilter' = ClearedIfAbsent(subgroupFilter, subgroupOptions')
       /\ \A sg \in Offered(subgroupOptions) :
             ChangeSubgroup(sg) =>
                /\ subgroupFilter' = sg
                /\ groupFilter' = ClearedIfAbsent(groupFilter, groupOptions')
       /\ (\E i \in 1..Len(tasks) : SaveDone(i)) =>
                /\ groupFilter' = ClearedIfAbsent(groupFilter, groupOptions')
                /\ subgroupFilter' = ClearedIfAbsent(subgroupFilter, subgroupOptions')]_vars

\* C15: no record of the store has the literal "(Ungrouped)" as its group.
C15_SentinelNeverStored ==
    \A i \in 1..Len(allPrompts) : allPrompts[i].group # Ungrouped

\* The records before position k are the same in both lists.
SameBefore(old, new, k) == \A i \in 1..(k - 1) : new[i] = old[i]

\* The step pushed one record, stamped with the time now.
Created(old, new, now) ==
    /\ Len(new) = Len(old) + 1
    /\ SameBefore(old, new, Len(new))
    /\ new[Len(new)].createdAt = now /\ new[Len(new)].updatedAt = now

\* The step changed at most the record at position k, which keeps its id and
\* its createdAt and is stamped with the time now.
UpdatedAt(old, new, k, now) ==
    /\ Len(new) = Len(old)
    /\ \A i \in 1..Len(old) : i # k => new[i] = old[i]
    /\ new[k].id = old[k].id /\ new[k].createdAt = old[k].createdAt
    /\ new[k].updatedAt = now
    /\ ~StrLess(now, old[k].updatedAt) => ~StrLess(new[k].updatedAt, old[k].updatedAt)

\* The step removed one record and left the others as they were, in order.
Deleted(old, new) == \E k \in 1..Len(old) : new = RemoveAt(old, k)

\* C16: a create stamps the new record's createdAt and updatedAt with the
\* same current time; an update keeps the record's id, createdAt and
\* position and sets updatedAt to the current time, so that updatedAt does
\* not decrease when the clock has not gone back; no create, update or
\* delete changes the timestamps of another record.
C16_Timestamps ==
    [][/\ (\E in \in FormInputs \cup {Visible(form)} : Submit(in)) =>
             \/ allPrompts' = allPrompts
             \/ Created(allPrompts, allPrompts', nowISO(clock))
             \/ \E k \in 1..Len(allPrompts) :
                   /\ allPrompts[k].id = form.promptId
                   /\ UpdatedAt(allPrompts, allPrompts', k, nowISO(clock))
       /\ ConfirmSubmit => (allPrompts' = allPrompts \/ Deleted(allPrompts, allPrompts'))]_vars

\* A captured record of time 0 has been edited at time 1: the update is on
\* its way to the file, createdAt is still 0 and updatedAt is 1.
C16_Witness ==
    /\ \E i \in 1..Len(tasks) : tasks[i].kind = "submit" /\ tasks[i].pc = "saving"
    /\ form.promptId # <<>>
    /\ \E k \in 1..Len(allPrompts) :
          /\ allPrompts[k].id = form.promptId
          /\ allPrompts[k].createdAt = nowISO(0)
          /\ allPrompts[k].updatedAt = nowISO(1)
          /\ allPrompts[k].title = <<"T">>

(***************************************************************************)
(* ensureCSVInitialized on its own: a file text is given, readable or not; *)
(* the file is read and tested, and rewritten when the test says so.       *)
(***************************************************************************)
\* First rows a file may start with.
EnsureHeaders ==
    { CSV_HEADERS,
      [k \in 1..7 |-> toLowerCase(CSV_HEADERS[k])],
      [k \in 1..7 |-> <<" ">> \o CSV_HEADERS[k] \o <<" ">>],
      [k \in 1..7 |-> <<QUOTE>> \o CSV_HEADERS[k] \o <<QUOTE>>],
      Append(CSV_HEADERS, <<"E", "x", "t", "r", "a">>),
      SubSeq(CSV_HEADERS, 1, 6),
      <<CSV_HEADERS[2], CSV_HEADERS[1]>> \o SubSeq(CSV_HEADERS, 3, 7),
      RenamedHeaders }

\* What may follow the first row.
EnsureTails ==
    { <<>>, <<CR, LF>>, <<LF>>,
      <<CR, LF>> \o RawText(<< << <<"x">>, <<>>, <<>>, <<"t">>, <<"c">>, <<"0">>, <<"0">> >> >>),
      <<CR>> \o RawText(<< << <<"x">>, <<"g">>, <<>>, <<"t">>, <<"c">> >> >>) \o <<LF>> }

\* The texts the file may hold.
EnsureTexts ==
    { <<>>, <<" ">>, <<CR, LF>>, <<" ", LF, " ">>, <<LF>> \o HeaderInit }
    \cup { Join(h, <<COMMA>>) \o tail : h \in EnsureHeaders, tail \in EnsureTails }

EnsureInit ==
    /\ file \in EnsureTexts
    /\ popup = "closed"
    /\ allPrompts = <<>>
    /\ promptDialog = FALSE
    /\ form = EmptyForm
    /\ formError = ""
    /\ confirmDialog = FALSE
    /\ confirmPromptId = <<>>
    /\ alerted = NoAlert
    /\ filtered = <<>>
    /\ groupFilter = <<>> /\ subgroupFilter = <<>> /\ searchInput = <<>>
    /\ groupOptions = <<>> /\ subgroupOptions = <<>>
    /\ tasks = <<>>
    /\ captures = <<>>
    /\ nextId = 0
    /\ clock = 0
    /\ ops = 0
    /\ input = file
    /\ encoded = <<>>
    /\ decoded = <<>>
    /\ reencoded = <<>>
    /\ readable \in BOOLEAN
    /\ step = "given"

\* const txt = await readCSVText(), then the test of the text
EnsureRead ==
    /\ step = "given"
    /\ readable
    /\ step' = IF NeedsInit(file) THEN "writing" ELSE "kept"
    /\ UNCHANGED <<input, encoded, decoded, reencoded, readable>>
    /\ UNCHANGED storeVars

\* readCSVText() throws: the catch branch
EnsureReadThrows ==
    /\ step = "given"
    /\ ~readable
    /\ step' = "writing"
    /\ UNCHANGED <<input, encoded, decoded, reencoded, readable>>
    /\ UNCHANGED storeVars

\* await writeCSVText(CSV_HEADERS.join(",") + "\r\n")
EnsureWrite ==
    /\ step = "writing"
    /\ file' = HeaderInit
    /\ step' = "written"
    /\ UNCHANGED <<popup, allPrompts, promptDialog, form, formError, confirmDialog,
                   confirmPromptId, alerted, filtered, groupFilter, subgroupFilter,
                   searchInput, groupOptions, subgroupOptions, tasks, captures, nextId,
                   clock, ops, input, encoded, decoded, reencoded, readable>>

SpecEnsure == EnsureInit /\ [][EnsureRead \/ EnsureReadThrows \/ EnsureWrite]_vars

\* The text is empty or has white space only.
BlankText(text) == \A k \in 1..Len(text) : text[k] \in WhiteSpace

\* ensureCSVInitialized has returned.
Ensured == step \in {"kept", "written"}

\* C17 as claimed: the file is rewritten to exactly the header line when it
\* was blank, could not be read, or its first decoded row differs from the
\* seven expected column names (compared case-insensitively and in order);
\* in every other case it is left as it was.
C17_ReinitWhenDiffers ==
    Ensured =>
        file = IF ~readable \/ BlankText(input) \/ ~EqualsExpected(HeaderRowOf(input))
               THEN HeaderInit ELSE input

\* C17 (amended): the file is rewritten to exactly the header line when it
\* was blank, could not be read, or one of the first seven cells of its
\* first decoded row, trimmed and lowercased, differs from the expected
\* name; in every other case it is left as it was.
C17_ReinitWhenFirstSevenDiffer ==
    Ensured =>
        file = IF ~readable \/ BlankText(input) \/ ~FirstSevenMatch(HeaderRowOf(input))
               THEN HeaderInit ELSE input

\* A readable file whose first row has six of the seven columns, followed by
\* a data row, has been replaced by the header line.
C17_Witness ==
    /\ step = "written"
    /\ readable
    /\ Len(HeaderRowOf(input)) = 6
    /\ Len(parseCSV(input)) = 2
    /\ file = HeaderInit /\ file # input

(***************************************************************************)
(* The codec from the text side: a text is given, decoded, encoded, and    *)
(* the result decoded and encoded again, while time passes.                *)
(***************************************************************************)
\* A data row as some program wrote it: the cells x,g,,t,c,0,0 with cell f
\* replaced by s and the cell after it by s2, both written as they are.
TextRow(f, s, s2) ==
    Join([k \in 1..7 |->
            IF k = f THEN s
            ELSE IF k = (f % 7) + 1 THEN s2
            ELSE << <<"x">>, <<"g">>, <<>>, <<"t">>, <<"c">>, <<"0">>, <<"0">> >>[k]],
         <<COMMA>>)

\* Data rows with a quoted cell that holds a comma, a quote and a line break.
TextSamples ==
    { <<COMMA, QUOTE, "g", COMMA, QUOTE, QUOTE, LF, "h", QUOTE, COMMA, COMMA,
        "t", COMMA, "c", COMMA, COMMA>>,
      <<"x", COMMA, COMMA, " ", COMMA, QUOTE, "t", CR, LF, "T", QUOTE, COMMA,
        QUOTE, " ", QUOTE, QUOTE, "c", QUOTE, COMMA, "0", COMMA, COMMA, "1">> }

\* The texts given to csvTextToObjects.
TextInputs ==
    EnsureTexts \cup
    { HeaderInit \o row \o tail : row \in TextSamples, tail \in {<<>>, <<LF>>} } \cup
    { HeaderInit \o TextRow(f, s, s2) \o tail :
        f \in 1..7, s \in StringsUpTo(CodecAlphabet, TextMaxLen),
        s2 \in StringsUpTo(CodecAlphabet, 1), tail \in {<<>>, <<CR, LF>>} }

TextInit ==
    /\ file = <<>>
    /\ popup = "closed"
    /\ allPrompts = <<>>
    /\ promptDialog = FALSE
    /\ form = EmptyForm
    /\ formError = ""
    /\ confirmDialog = FALSE
    /\ confirmPromptId = <<>>
    /\ alerted = NoAlert
    /\ filtered = <<>>
    /\ groupFilter = <<>> /\ subgroupFilter = <<>> /\ searchInput = <<>>
    /\ groupOptions = <<>> /\ subgroupOptions = <<>>
    /\ tasks = <<>>
    /\ captures = <<>>
    /\ nextId = 0
    /\ clock = 0
    /\ ops = 0
    /\ input \in TextInputs
    /\ encoded = <<>>
    /\ decoded = <<>>
    /\ reencoded = <<>>
    /\ readable = TRUE
    /\ step = "text"

TextUnchanged ==
    UNCHANGED <<file, popup, allPrompts, promptDialog, form, formError, confirmDialog,
                confirmPromptId, alerted, filtered, groupFilter, subgroupFilter,
                searchInput, groupOptions, subgroupOptions, tasks, captures, ops,
                input, readable>>

\* csvTextToObjects(t)
TextDecode ==
    /\ step = "text"
    /\ decoded' = csvTextToObjects(input, nextId, clock).out
    /\ nextId' = csvTextToObjects(input, nextId, clock).n
    /\ step' = "textDecoded"
    /\ UNCHANGED <<encoded, reencoded, clock>>
    /\ TextUnchanged

\* e = toCSV(...)
TextEncode ==
    /\ step = "textDecoded"
    /\ encoded' = toCSV(decoded)
    /\ step' = "textEncoded"
    /\ UNCHANGED <<decoded, reencoded, nextId, clock>>
    /\ TextUnchanged

\* csvTextToObjects(e)
TextRedecode ==
    /\ step = "textEncoded"
    /\ decoded' = csvTextToObjects(encoded, nextId, clock).out
    /\ nextId' = csvTextToObjects(encoded, nextId, clock).n
    /\ step' = "textRedecoded"
    /\ UNCHANGED <<encoded, reencoded, clock>>
    /\ TextUnchanged

\* toCSV(csvTextToObjects(e))
TextReencode ==
    /\ step = "textRedecoded"
    /\ reencoded' = toCSV(decoded)
    /\ step' = "textReencoded"
    /\ UNCHANGED <<encoded, decoded, nextId, clock>>
    /\ TextUnchanged

\* Time passes.
TextTick ==
    /\ clock < MaxClock
    /\ clock' = clock + 1
    /\ UNCHANGED <<encoded, decoded, reencoded, nextId, step>>
    /\ TextUnchanged

SpecText ==
    TextInit /\ [][TextDecode \/ TextEncode \/ TextRedecode \/ TextReencode \/ TextTick]_vars

\* C18: for any text t, with e = toCSV(csvTextToObjects(t)), decoding and
\* encoding e again gives e byte for byte.
C18_Idempotent == step = "textReencoded" => reencoded = encoded

\* A text with a quote and a line feed in a cell and no id has gone through
\* both rounds; the clock moved in between, e differs from the text and has
\* one quoted record.
C18_Witness ==
    /\ step = "textReencoded"
    /\ clock = 1
    /\ Len(decoded) = 1
    /\ decoded[1].id = uuid(0) /\ decoded[1].createdAt = nowISO(0)
    /\ \E k \in 1..Len(decoded[1].group) : decoded[1].group[k] = LF
    /\ encoded # input

\* C19: when the file has the expected header (load does not reinitialize
\* it), a data row with fewer than seven columns and a non-empty title and
\* content is kept by the decoding of load, with its missing timestamps set
\* to the current time.
C19_ShortRowsKept ==
    [][(TextDecode /\ FirstSevenMatch(HeaderRowOf(input))) =>
          \A i \in 2..Len(parseCSV(input)) :
              (/\ Len(parseCSV(input)[i]) \in 5..6
               /\ trim(parseCSV(input)[i][4]) # <<>>
               /\ trim(parseCSV(input)[i][5]) # <<>>) =>
                  \E k \in 1..Len(decoded') :
                      /\ decoded'[k].title = trim(parseCSV(input)[i][4])
                      /\ decoded'[k].content = trim(parseCSV(input)[i][5])
                      /\ decoded'[k].updatedAt = nowISO(clock)]_vars

(***************************************************************************)
(* parseCSV on its own: rows of cells are written out with one of the      *)
(* three row terminators, and the text is parsed.                          *)
(***************************************************************************)
RowTerminators == { <<CR, LF>>, <<LF>>, <<CR>> }

\* The cells of the rows written; those with a CR or LF are written quoted.
RowCells == { <<>>, <<"a">>, <<CR, LF>>, <<LF, "a">>, <<"a", CR>> }

\* A cell as a CSV writer puts it into the text.
WrittenCell(c) ==
    IF \E k \in 1..Len(c) : c[k] \in {CR, LF, COMMA, QUOTE}
    THEN <<QUOTE>> \o DoubleQuotes(c) \o <<QUOTE>>
    ELSE c

WrittenRow(r) == Join([k \in 1..Len(r) |-> WrittenCell(r[k])], <<COMMA>>)

\* The rows, each but the last followed by the terminator, the last followed
\* by it when final says so.
WrittenRows(rows, sep, final) ==
    Join([k \in 1..Len(rows) |-> WrittenRow(rows[k])], sep) \o (IF final THEN sep ELSE <<>>)

\* The lists of one to RowsMaxRows rows of one or two cells.
RowLists ==
    UNION { [1..n -> { <<c>> : c \in RowCells } \cup { <<c, d>> : c \in RowCells, d \in RowCells }] :
            n \in 1..RowsMaxRows }

RowsInit ==
    /\ file = <<>>
    /\ popup = "closed"
    /\ allPrompts = <<>>
    /\ promptDialog = FALSE
    /\ form = EmptyForm
    /\ formError = ""
    /\ confirmDialog = FALSE
    /\ confirmPromptId = <<>>
    /\ alerted = NoAlert
    /\ filtered = <<>>
    /\ groupFilter = <<>> /\ subgroupFilter = <<>> /\ searchInput = <<>>
    /\ groupOptions = <<>> /\ subgroupOptions = <<>>
    /\ tasks = <<>>
    /\ captures = <<>>
    /\ nextId = 0
    /\ clock = 0
    /\ ops = 0
    /\ input \in [rows : RowLists, sep : RowTerminators, final : BOOLEAN, tail : {<<>>}]
    /\ encoded = <<>>
    /\ decoded = <<>>
    /\ reencoded = <<>>
    /\ readable = TRUE
    /\ step = "rows"

\* The text is written: the rows, then what follows them.
RowsWrite ==
    /\ step = "rows"
    /\ encoded' = WrittenRows(input.rows, input.sep, input.final) \o input.tail
    /\ step' = "rowsWritten"
    /\ UNCHANGED <<input, decoded, reencoded, readable>>
    /\ UNCHANGED storeVars

\* parseCSV(text)
RowsParse ==
    /\ step = "rowsWritten"
    /\ decoded' = parseCSV(encoded)
    /\ step' = "rowsParsed"
    /\ UNCHANGED <<input, encoded, reencoded, readable>>
    /\ UNCHANGED storeVars

RowsNext == RowsWrite \/ RowsParse

SpecRows == RowsInit /\ [][RowsNext]_vars

\* The rows a reader should find: all of them, but for an empty last line
\* that no terminator ends.
RowsExpected(rows, final) ==
    IF ~final /\ rows[Len(rows)] = << <<>> >> THEN SubSeq(rows, 1, Len(rows) - 1) ELSE rows

\* C20: CRLF, LF and CR each end exactly one row, so that the same rows
\* written with any of the three parse to the same list of rows, with no
\* extra empty row for a CRLF pair; a CR or LF inside a quoted cell stays in
\* the cell and ends neither the cell nor the row.
C20_RowTerminators ==
    step = "rowsParsed" => decoded = RowsExpected(input.rows, input.final)

\* Two rows ended by CRLF, the first with a CRLF inside a quoted cell, have
\* been parsed into two rows.
C20_Witness ==
    /\ step = "rowsParsed"
    /\ input.sep = <<CR, LF>> /\ input.final
    /\ Len(input.rows) = 2
    /\ input.rows[1] = << <<CR, LF>>, <<"a">> >>
    /\ Len(decoded) = 2 /\ decoded[1][1] = <<CR, LF>>

(***************************************************************************)
(* parseCSV on a text whose last row opens a quoted field and never closes *)
(* it: complete rows, each ended by a terminator, then the dangling row.   *)
(***************************************************************************)
\* Last rows that end inside a quoted field.
DanglingTails ==
    { <<QUOTE>>,
      <<QUOTE, "a">>,
      <<QUOTE, "a", QUOTE, QUOTE>>,
      <<QUOTE, CR, LF, "a">>,
      <<"a", COMMA, QUOTE, "a", COMMA, "a", LF>> }

DanglingInit ==
    /\ file = <<>>
    /\ popup = "closed"
    /\ allPrompts = <<>>
    /\ promptDialog = FALSE
    /\ form = EmptyForm
    /\ formError = ""
    /\ confirmDialog = FALSE
    /\ confirmPromptId = <<>>
    /\ alerted = NoAlert
    /\ filtered = <<>>
    /\ groupFilter = <<>> /\ subgroupFilter = <<>> /\ searchInput = <<>>
    /\ groupOptions = <<>> /\ subgroupOptions = <<>>
    /\ tasks = <<>>
    /\ captures = <<>>
    /\ nextId = 0
    /\ clock = 0
    /\ ops = 0
    /\ input \in [rows : RowLists, sep : RowTerminators, final : {TRUE}, tail : DanglingTails]
    /\ encoded = <<>>
    /\ decoded = <<>>
    /\ reencoded = <<>>
    /\ readable = TRUE
    /\ step = "rows"

SpecDangling == DanglingInit /\ [][RowsNext]_vars

\* C21: for a text that ends inside a quoted field that is never closed,
\* parseCSV returns, and the rows completed before the dangling row come
\* first in its result, each with the fields it was written with.
C21_PriorRowsKept ==
    step = "rowsParsed" =>
        /\ Len(decoded) >= Len(input.rows)
        /\ SubSeq(decoded, 1, Len(input.rows)) = input.rows

\* Two complete rows, the first with a quoted line break, then a row whose
\* second cell opens a quote that runs to the end of the text: the two rows
\* come back, followed by the dangling row with the rest of the text in its
\* second cell.
C21_Witness ==
    /\ step = "rowsParsed"
    /\ input.tail = <<"a", COMMA, QUOTE, "a", COMMA, "a", LF>>
    /\ Len(input.rows) = 2
    /\ input.rows[1] = << <<CR, LF>>, <<"a">> >>
    /\ decoded = input.rows \o << << <<"a">>, <<"a", COMMA, "a", LF>> >> >>

(***************************************************************************)
(* Quick capture on its own: the file holds some text, selections of       *)
(* several lengths are captured one after the other.                       *)
(***************************************************************************)
\* The selections given to the handler: blank, short, with the characters
\* CSV escapes, and of 79, 80, 81 and 120 characters (the digits in turn).
CaptureSelections ==
    LET typed(n) == [k \in 1..n |-> Digits[(k % 10) + 1]]
    IN  { <<" ">>, <<" ", "t", " ">>, <<"a", COMMA, QUOTE, LF, "b">>,
          typed(79), <<" ">> \o typed(80) \o <<LF>>, typed(81), typed(120) }

CaptureInit ==
    /\ file \in { <<>>, HeaderInit, toCSV(<<BaseRecord(1)>>),
                  toCSV(<<CodecRecord(1, 5, <<"x", LF, QUOTE, COMMA, "y">>, <<>>)>>),
                  Join(RenamedHeaders, <<COMMA>>) \o <<LF>> \o RecordLine(BaseRecord(1)) }
    /\ popup = "closed"
    /\ allPrompts = <<>>
    /\ promptDialog = FALSE
    /\ form = EmptyForm
    /\ formError = ""
    /\ confirmDialog = FALSE
    /\ confirmPromptId = <<>>
    /\ alerted = NoAlert
    /\ filtered = <<>>
    /\ groupFilter = <<>> /\ subgroupFilter = <<>> /\ searchInput = <<>>
    /\ groupOptions = <<>> /\ subgroupOptions = <<>>
    /\ tasks = <<>>
    /\ captures = <<>>
    /\ nextId = 0
    /\ clock = 0
    /\ ops = 0
    /\ input = <<>>
    /\ encoded = <<>>
    /\ decoded = <<>>
    /\ reencoded = <<>>
    /\ readable = TRUE
    /\ step = "idle"

CaptureNext ==
    \/ \E sel \in CaptureSelections : StartCapture(sel)
    \/ \E i \in 1..Len(captures) : CaptureEnsure(i)
    \/ \E i \in 1..Len(captures) : CaptureEnsureWritten(i)
    \/ \E i \in 1..Len(captures) : CaptureRead(i)
    \/ \E i \in 1..Len(captures) : CaptureCommit(i)
    \/ Tick

SpecCapture == CaptureInit /\ [][CaptureNext]_vars

\* The selection without the white space around it.
Stripped(sel) ==
    LET inner == {k \in 1..Len(sel) : sel[k] \notin WhiteSpace}
    IN  IF inner = {} THEN <<>>
        ELSE SubSeq(sel, CHOOSE k \in inner : \A j \in inner : k <= j,
                         CHOOSE k \in inner : \A j \in inner : k >= j)

\* The title of a captured text: the text, or its first 77 characters and
\* three dots when it has more than 80.
TitleFor(content) ==
    IF Len(content) <= 80 THEN content
    ELSE [k \in 1..80 |-> IF k <= 77 THEN content[k] ELSE "."]

\* The records of a text, as quick capture decodes it.
RecordsOf(text, n, t) == bgCsvTextToObjects(text, n, t).out

\* C22: a selection that is not blank is captured with its trimmed text as
\* content; the text the handler writes holds the records it decoded from
\* the file, unchanged and in order, and after them exactly one record, with
\* empty group and subgroup, that content, and as title the content when it
\* has at most 80 characters and else its first 77 characters and "...";
\* that text becomes the file.
C22_CaptureShape ==
    [][/\ \A sel \in CaptureSelections :
             StartCapture(sel) => captures'[Len(captures')].content = Stripped(sel)
       /\ \A i \in 1..Len(captures) :
             CaptureRead(i) =>
                LET before == RecordsOf(file, nextId, clock)
                    after  == RecordsOf(captures'[i].text, nextId', clock)
                IN  /\ Len(after) = Len(before) + 1
                    /\ SubSeq(after, 1, Len(before)) = before
                    /\ after[Len(after)].group = <<>>
                    /\ after[Len(after)].subgroup = <<>>
                    /\ after[Len(after)].content = captures[i].content
                    /\ after[Len(after)].title = TitleFor(captures[i].content)
       /\ \A i \in 1..Len(captures) :
             CaptureCommit(i) => file' = captures[i].text]_vars

\* The file held one record; a selection of 120 characters was captured:
\* the file holds that record and then one with a title of 80 characters
\* ending in "..." and the 120 characters as content.
C22_Witness ==
    /\ captures = <<>>
    /\ Len(RecordsOf(file, 0, 0)) = 2
    /\ RecordsOf(file, 0, 0)[1] = BaseRecord(1)
    /\ Len(RecordsOf(file, 0, 0)[2].content) = 120
    /\ Len(RecordsOf(file, 0, 0)[2].title) = 80
    /\ SubSeq(RecordsOf(file, 0, 0)[2].title, 76, 80) = <<"6", "7", ".", ".", ".">>

(***************************************************************************)
(* The two writers of the file: the popup running one handler at a time    *)
(* (the next handler starts when the previous one has resolved) and quick  *)
(* capture, whose steps interleave with the popup's at every await.        *)
(***************************************************************************)
WritersNext ==
    \/ tasks = <<>> /\ OpenPopup
    \/ ClosePopup
    \/ \E i \in 1..Len(tasks) : LoadEnsure(i)
    \/ \E i \in 1..Len(tasks) : LoadEnsureWritten(i)
    \/ \E i \in 1..Len(tasks) : LoadRead(i)
    \/ \E i \in 1..Len(tasks) : LoadAssign(i)
    \/ OpenCreate
    \/ \E k \in 1..Len(filtered) : OpenEdit(k)
    \/ \E k \in 1..Len(filtered) : OpenDelete(k)
    \/ CancelPrompt
    \/ CancelConfirm
    \/ \E in \in FormInputs \cup {Visible(form)} : tasks = <<>> /\ Submit(in)
    \/ tasks = <<>> /\ ConfirmSubmit
    \/ \E text \in ImportFiles : tasks = <<>> /\ ChooseImport(text)
    \/ \E i \in 1..Len(tasks) : ImportLoaded(i)
    \/ \E i \in 1..Len(tasks) : ImportReadError(i)
    \/ \E i \in 1..Len(tasks) : SaveCommit(i)
    \/ \E i \in 1..Len(tasks) : SaveFail(i)
    \/ \E i \in 1..Len(tasks) : SaveDone(i)
    \/ DismissAlert
    \/ \E g \in Offered(groupOptions) : ChangeGroup(g)
    \/ \E sg \in Offered(subgroupOptions) : ChangeSubgroup(sg)
    \/ \E q \in Queries : Search(q)
    \/ \E sel \in Selections : StartCapture(sel)
    \/ \E i \in 1..Len(captures) : CaptureEnsure(i)
    \/ \E i \in 1..Len(captures) : CaptureEnsureWritten(i)
    \/ \E i \in 1..Len(captures) : CaptureRead(i)
    \/ \E i \in 1..Len(captures) : CaptureCommit(i)
    \/ Tick

SpecWriters == Init /\ [][WritersNext]_vars

\* The ids of the records of a list.
IdsOf(recs) == {recs[k].id : k \in 1..Len(recs)}

\* C23: a record that is in the persisted file stays in it at every step of
\* the popup and of quick capture, save for the step that writes a deletion
\* confirmed in the popup.
C23_NoLostRecords ==
    [][\/ IdsOf(RecordsOf(file, 0, 0)) \subseteq IdsOf(RecordsOf(file', 0, 0))
       \/ \E i \in 1..Len(tasks) :
             tasks[i].kind = "confirm" /\ tasks[i].pc = "saving" /\ file' = tasks[i].text]_vars

\* C24: whenever no popup handler is in flight, the table shown is the
\* filter of allPrompts under the selections and the query in place, and the
\* two option lists are those getDynamicLists returns for allPrompts and the
\* selections in place.
C24_ViewConsistent ==
    (popup = "open" /\ tasks = <<>>) =>
        /\ filtered = filterItems(allPrompts, searchInput, groupFilter, subgroupFilter)
        /\ groupOptions = getDynamicLists(allPrompts, groupFilter, subgroupFilter).groupsList
        /\ subgroupOptions =
              getDynamicLists(allPrompts, groupFilter, subgroupFilter).subgroupsList

====
